---- MODULE Spec2Model ----
(***************************************************************************)
(* A model of goaegis pkg/core/context.go: AppContext, the per-request     *)
(* execution context (response writing with a write-once header, the       *)
(* cursor-driven handler chain, Reset for pooling, WithContext).           *)
(*                                                                         *)
(* Contexts are heap objects (ctxs[id]); their params and values maps and  *)
(* the body stream of their request are heap objects too (heap[addr]), so  *)
(* that sharing one between two contexts is something the model can        *)
(* express.  The response sink (http.ResponseWriter) is an external object *)
(* the model records calls on.                                             *)
(***************************************************************************)
EXTENDS Integers, Sequences, FiniteSets, TLC

VARIABLES
    ctxs,      \* heap of AppContext objects: a sequence of records, id = position
    heap,      \* heap of Go maps (params and values, [Keys -> value]) and request body streams
    sink,      \* the http.ResponseWriter objects: header map, WriteHeader calls, body
    commits,   \* history: WriteHeader calls made through each context since NewContext/Reset
    stack,     \* the Go call stack of handler invocations made by Next()
    log,       \* what the handlers recorded (the tests' executionOrder)
    lastNext,  \* history: the most recent Next() call (cursor after ++, handler invoked?, result if immediate)
    topCalls,  \* history: per context, Next() calls made by the outermost caller since SetHandlers/Reset
    cut,       \* history: position of the first handler that returned without calling Next(), or -1
    afterCut,  \* history: Next() calls made after that return
    lastOp,    \* the last API call that returned: its arguments and what it returned
    threads    \* the goroutines calling methods of one context concurrently

vars == <<ctxs, heap, sink, commits, stack, log, lastNext, topCalls, cut, afterCut, lastOp, threads>>

----------------------------------------------------------------------------
(* Bounds of the model *)

MaxBody == 2        \* body chunks a sink accepts; the transport fails every write after that
MaxChain == 3       \* longest handler chain the router supplies
MaxTopCalls == 2    \* Next() calls the outermost caller makes on one chain

(* Program constants *)

StatusOK == 200           \* http.StatusOK
BeforeFirst == -1         \* the cursor's "before first" sentinel
RedirectMin == 300        \* Redirect accepts statusCode >= 300 ...
RedirectLimit == 400      \* ... and < 400

----------------------------------------------------------------------------
(* Values *)

Absent == "<absent>"                  \* a key that is not in a Go map
NilValue == "<nil>"                   \* the nil interface{} GetValue returns
Nil == <<"nil">>                      \* a nil error
Pending == <<"pending">>              \* a call that has not returned yet
Err(what) == <<"error", what, 0>>     \* a non-nil error made by the context
HandlerErr(pos) == <<"error", "handler", pos>>   \* the failure of the handler at pos
Ref(id) == <<"ctx", id>>              \* a *AppContext

Keys == {"id", "user"}
Sinks == {"w1", "w2", "w3"}
Requests == {"r1", "r2"}
HeaderNames == {"Content-Type", "Location", "Transfer-Encoding"}

CTJson == "application/json"
CTText == "text/plain; charset=utf-8"
CTHtml == "text/html; charset=utf-8"
CTData == "application/octet-stream"

(* make(map[string]...) *)
EmptyMap == [k \in Keys |-> Absent]

(* A response sink: its header map, the status codes WriteHeader was called *)
(* with, in order, and the number of body chunks written.  live: some       *)
(* context is bound to it; a sink no context is bound to any more cannot be *)
(* reached by the program and leaves the model (Released).                  *)
NewSink == [header |-> [h \in HeaderNames |-> Absent], whLog |-> <<>>, body |-> 0, live |-> TRUE]
Released == [NewSink EXCEPT !.live = FALSE]

(* sync.RWMutex: the goroutine holding the write lock, and the number of   *)
(* goroutines holding the read lock.  The zero value is unlocked.          *)
NoThread == "<none>"
Unlocked == [writer |-> NoThread, readers |-> 0]

(* The request as the transport hands it over: its context.Context is its own *)
NewRequest(r) == [req |-> r, cx |-> "background"]

(* NewContext(w, r) *)
NewContextRec(w, r, pAddr, vAddr) ==
    [request |-> NewRequest(r), response |-> w,
     params |-> pAddr, values |-> vAddr, handlers |-> <<>>,
     index |-> BeforeFirst, statusCode |-> StatusOK,
     headerWritten |-> FALSE, written |-> FALSE, mu |-> Unlocked]

CtxIds == 1..Len(ctxs)

----------------------------------------------------------------------------
(* Accessors *)

Param(id, name) == LET v == heap[ctxs[id].params][name] IN IF v = Absent THEN "" ELSE v
GetValue(id, key) == LET v == heap[ctxs[id].values][key] IN IF v = Absent THEN NilValue ELSE v
GetStatusCode(id) == ctxs[id].statusCode
IsWritten(id) == ctxs[id].written
Response(id) == ctxs[id].response
Request(id) == ctxs[id].request.req

----------------------------------------------------------------------------
(* The steps the response-writing methods are made of, as functions of the *)
(* world W = [ctxs, sink, commits, steps]; steps is the sequence of the    *)
(* steps taken so far by the call that is being executed.                  *)

World == [ctxs |-> ctxs, sink |-> sink, commits |-> commits, steps |-> <<>>]

(* c.response.Header().Set(key, value) *)
SetHeaderW_Dropped(W, id, key, value) == W

SetHeaderW(W, id, key, value) ==
    [W EXCEPT !.sink[W.ctxs[id].response].header[key] = value,
              !.steps = Append(@, "header")]

(* c.statusCode = statusCode *)
StatusW_Dropped(W, id, code) == [W EXCEPT !.steps = Append(@, "status")]

StatusW(W, id, code) ==
    [W EXCEPT !.ctxs[id].statusCode = code, !.steps = Append(@, "status")]

(* c.Response().WriteHeader(code) as the sink sees it *)
SinkWriteHeader(s, code) == [s EXCEPT !.whLog = Append(@, code)]

writeHeaderOnce_Always(W, id) ==
    LET c == W.ctxs[id] IN
    [W EXCEPT !.sink[c.response] = SinkWriteHeader(@, c.statusCode),
              !.ctxs[id].headerWritten = TRUE,
              !.commits[id] = @ + 1,
              !.steps = Append(@, "commit")]

writeHeaderOnce(W, id) ==
    LET c == W.ctxs[id] IN
    IF ~c.headerWritten
    THEN [W EXCEPT !.sink[c.response] = SinkWriteHeader(@, c.statusCode),
                   !.ctxs[id].headerWritten = TRUE,
                   !.commits[id] = @ + 1,
                   !.steps = Append(@, "commit")]
    ELSE W

(* c.response.Write(bytes): ok is whether the transport accepts the bytes *)
SinkWriteW(W, id, ok) ==
    IF ok THEN [W EXCEPT !.sink[W.ctxs[id].response].body = @ + 1,
                         !.steps = Append(@, "write")]
    ELSE [W EXCEPT !.steps = Append(@, "write")]

(* c.written = true *)
SetWrittenW_Never(W, id) == W

SetWrittenW(W, id) ==
    [W EXCEPT !.ctxs[id].written = TRUE, !.steps = Append(@, "written")]

(* step(c.response): the producer is invoked *)
StepW(W) == [W EXCEPT !.steps = Append(@, "step")]

Install(W) == ctxs' = W.ctxs /\ sink' = W.sink /\ commits' = W.commits

(* What the transport may answer to a body write through context id *)
WriteOutcomes(id) == IF sink[ctxs[id].response].body < MaxBody THEN BOOLEAN ELSE {FALSE}

Idle == stack = <<>>

ChainFrame == <<stack, log, lastNext, topCalls, cut, afterCut>>

(* lastOp.dirty: after Reset, whether Reset found every resettable piece   *)
(* of the context changed from its default; after SetHandlers, whether     *)
(* SetHandlers found the cursor moved from its default                     *)
(* lastOp.code, lastOp.key, lastOp.text: the call's status-code argument,  *)
(* its name/key argument and its other string argument, when it has them   *)
(* lastOp.steps: the steps a response-writing call took, in their order    *)
CalledWith(op, id, ret, code, key, text) ==
    [op |-> op, c |-> id, ret |-> ret, dirty |-> FALSE,
     code |-> code, key |-> key, text |-> text, steps |-> <<>>]

Called(op, id, ret) == CalledWith(op, id, ret, 0, "", "")

Returned(op, id, ret) == lastOp' = Called(op, id, ret)

ReturnedWith(op, id, ret, code, key, text) ==
    lastOp' = CalledWith(op, id, ret, code, key, text)

(* the world W the call leaves is installed and its steps are recorded *)
ReturnedFrom(W, op, id, ret, code, key, text) ==
    /\ Install(W)
    /\ lastOp' = [CalledWith(op, id, ret, code, key, text) EXCEPT !.steps = W.steps]

----------------------------------------------------------------------------
(* Response-writing methods *)

(* fmt.Errorf("...: %w", err): a failure that wraps the failure cause *)
Wrap(what, cause) == <<"error", what, 0, cause>>

(* the error the sink's Write returns when the transport fails *)
TransportErr == "transport"

(* A writer of the JSON/String/HTML/Data shape: Content-Type, status,      *)
(* header commit, body write; written only when the write succeeded, and   *)
(* the sink's error wrapped when it did not.                               *)
BodyWriter_MarksWritten(op, what, id, contentType, code, ok) ==
    LET W1 == SetHeaderW(World, id, "Content-Type", contentType)
        W2 == StatusW(W1, id, code)
        W3 == writeHeaderOnce(W2, id)
        W4 == SinkWriteW(W3, id, ok)
        W5 == SetWrittenW(W4, id)
    IN  /\ Idle /\ ok \in WriteOutcomes(id)
        /\ ReturnedFrom(W5, op, id, IF ok THEN Nil ELSE Wrap(what, TransportErr),
                        code, "", contentType)
        /\ UNCHANGED <<heap, ChainFrame, threads>>

BodyWriter(op, what, id, contentType, code, ok) ==
    LET W1 == SetHeaderW(World, id, "Content-Type", contentType)
        W2 == StatusW(W1, id, code)
        W3 == writeHeaderOnce(W2, id)
        W4 == SinkWriteW(W3, id, ok)
        W5 == IF ok THEN SetWrittenW(W4, id) ELSE W4
    IN  /\ Idle /\ ok \in WriteOutcomes(id)
        /\ ReturnedFrom(W5, op, id, IF ok THEN Nil ELSE Wrap(what, TransportErr),
                        code, "", contentType)
        /\ UNCHANGED <<heap, ChainFrame, threads>>

JSON(id, code, ok) == BodyWriter("JSON", "failed to encode JSON", id, CTJson, code, ok)

String(id, code, ok) == BodyWriter("String", "failed to write string response", id, CTText, code, ok)

HTML(id, code, ok) == BodyWriter("HTML", "failed to write HTML response", id, CTHtml, code, ok)

Data(id, code, contentType, ok) ==
    BodyWriter("Data", "failed to write data response", id, contentType, code, ok)

NoContent(id, code) ==
    LET W1 == StatusW(World, id, code)
        W2 == writeHeaderOnce(W1, id)
        W3 == SetWrittenW(W2, id)
    IN  /\ Idle
        /\ ReturnedFrom(W3, "NoContent", id, Nil, code, "", "")
        /\ UNCHANGED <<heap, ChainFrame, threads>>

(* statusCode < 300 || statusCode >= 400 *)
InvalidRedirect_Above400(code) == code < RedirectMin \/ code > RedirectLimit

InvalidRedirect(code) == code < RedirectMin \/ code >= RedirectLimit

Redirect(id, code, location) ==
    /\ Idle
    /\ IF InvalidRedirect(code)
       THEN /\ ReturnedWith("Redirect", id, Err("invalid redirect status code"), code, "", location)
            /\ UNCHANGED <<ctxs, sink, commits>>
       ELSE LET W1 == SetHeaderW(World, id, "Location", location)
                W2 == StatusW(W1, id, code)
                W3 == writeHeaderOnce(W2, id)
                W4 == SetWrittenW(W3, id)
            IN  ReturnedFrom(W4, "Redirect", id, Nil, code, "", location)
    /\ UNCHANGED <<heap, ChainFrame, threads>>

(* SetHeader(key, value): c.response.Header().Set(key, value), whatever    *)
(* has been committed or written                                           *)
SetHeader(id, key, value) ==
    /\ Idle
    /\ ReturnedFrom(SetHeaderW(World, id, key, value), "SetHeader", id, Ref(id), 0, key, value)
    /\ UNCHANGED <<heap, ChainFrame, threads>>

Status(id, code) ==
    /\ Idle
    /\ ReturnedFrom(StatusW(World, id, code), "Status", id, Ref(id), code, "", "")
    /\ UNCHANGED <<heap, ChainFrame, threads>>

(* the n of the sink's Write: the chunks it took *)
SinkWriteCount(ok) == IF ok THEN 1 ELSE 0

(* Write(data): (n, err) is what the sink's Write returns; lastOp.code is n *)
Write_CommitsOK(id, ok) ==
    LET W1 == writeHeaderOnce([World EXCEPT !.ctxs[id].statusCode = StatusOK], id)
        W2 == SetWrittenW(W1, id)
        W3 == SinkWriteW(W2, id, ok)
    IN  /\ Idle /\ ok \in WriteOutcomes(id)
        /\ ReturnedFrom(W3, "Write", id, IF ok THEN Nil ELSE Err(TransportErr),
                        SinkWriteCount(ok), "", "")
        /\ UNCHANGED <<heap, ChainFrame, threads>>

Write(id, ok) ==
    LET W1 == writeHeaderOnce(World, id)
        W2 == SetWrittenW(W1, id)
        W3 == SinkWriteW(W2, id, ok)
    IN  /\ Idle /\ ok \in WriteOutcomes(id)
        /\ ReturnedFrom(W3, "Write", id, IF ok THEN Nil ELSE Err(TransportErr),
                        SinkWriteCount(ok), "", "")
        /\ UNCHANGED <<heap, ChainFrame, threads>>

(* Stream: step is called once with the sink; it writes chunks (0 or 1)    *)
(* and returns nil, io.EOF or another error.                               *)
StepResults == {"nil", "EOF", "fail", "closed"}

(* if err := step(c.response); err != nil && err != io.EOF { return wrapped } *)
(* return nil                                                              *)
StreamResult_EOFFails(stepResult) ==
    IF stepResult # "nil" THEN Wrap("streaming error", stepResult) ELSE Nil

StreamResult(stepResult) ==
    IF stepResult # "nil" /\ stepResult # "EOF"
    THEN Wrap("streaming error", stepResult)
    ELSE Nil

Stream_ProducerFirst(id, code, contentType, chunk, stepResult) ==
    LET W1 == SetHeaderW(World, id, "Content-Type", contentType)
        W2 == SetHeaderW(W1, id, "Transfer-Encoding", "chunked")
        W3 == StatusW(W2, id, code)
        W4 == StepW(W3)
        W5 == IF chunk THEN SinkWriteW(W4, id, TRUE) ELSE W4
        W6 == writeHeaderOnce(W5, id)
        W7 == SetWrittenW(W6, id)
    IN  /\ Idle /\ chunk \in WriteOutcomes(id)
        /\ ReturnedFrom(W7, "Stream", id, StreamResult(stepResult), code, contentType,
                        stepResult)
        /\ UNCHANGED <<heap, ChainFrame, threads>>

Stream(id, code, contentType, chunk, stepResult) ==
    LET W1 == SetHeaderW(World, id, "Content-Type", contentType)
        W2 == SetHeaderW(W1, id, "Transfer-Encoding", "chunked")
        W3 == StatusW(W2, id, code)
        W4 == writeHeaderOnce(W3, id)
        W5 == SetWrittenW(W4, id)
        W6 == StepW(W5)
        W7 == IF chunk THEN SinkWriteW(W6, id, TRUE) ELSE W6
    IN  /\ Idle /\ chunk \in WriteOutcomes(id)
        /\ ReturnedFrom(W7, "Stream", id, StreamResult(stepResult), code, contentType,
                        stepResult)
        /\ UNCHANGED <<heap, ChainFrame, threads>>

----------------------------------------------------------------------------
(* Reset(w, r): rebinds, restores the defaults, empties both maps in place *)
(* and truncates the chain.                                                *)

ClearMap(m) == [k \in DOMAIN m |-> Absent]

ResetHeap_KeepsValues(hp, c) == [hp EXCEPT ![c.params] = ClearMap(@)]

ResetHeap(hp, c) ==
    [hp EXCEPT ![c.params] = ClearMap(@), ![c.values] = ClearMap(@)]

ResetRec_KeepsCommitted(c, w, r) ==
    [c EXCEPT !.request = NewRequest(r),
              !.response = w,
              !.statusCode = StatusOK,
              !.written = FALSE,
              !.index = BeforeFirst,
              !.handlers = <<>>]

ResetRec_KeepsWritten(c, w, r) ==
    [c EXCEPT !.request = NewRequest(r),
              !.response = w,
              !.statusCode = StatusOK,
              !.headerWritten = FALSE,
              !.index = BeforeFirst,
              !.handlers = <<>>]

ResetRec_KeepsChain(c, w, r) ==
    [c EXCEPT !.request = NewRequest(r),
              !.response = w,
              !.statusCode = StatusOK,
              !.headerWritten = FALSE,
              !.written = FALSE,
              !.index = BeforeFirst]

ResetRec(c, w, r) ==
    [c EXCEPT !.request = NewRequest(r),
              !.response = w,
              !.statusCode = StatusOK,
              !.headerWritten = FALSE,
              !.written = FALSE,
              !.index = BeforeFirst,
              !.handlers = <<>>]

(* The sinks after context id has left sink old for the fresh sink w *)
Rebind(id, old, w) ==
    LET held == \E o \in CtxIds \ {id} : ctxs[o].response = old
    IN  [x \in Sinks |-> IF x = w THEN NewSink
                          ELSE IF x = old /\ ~held THEN Released
                          ELSE sink[x]]

Dirty(id) ==
    LET c == ctxs[id]
    IN  /\ \E k \in Keys : heap[c.params][k] # Absent
        /\ \E k \in Keys : heap[c.values][k] # Absent
        /\ c.statusCode # StatusOK
        /\ c.headerWritten /\ c.written
        /\ c.index # BeforeFirst /\ c.handlers # <<>>

NoNext(id) == [c |-> id, idx |-> BeforeFirst, hit |-> FALSE, ret |-> Pending]

Reset(id, w, r) ==
    /\ Idle
    /\ ~sink[w].live
    /\ ctxs' = [ctxs EXCEPT ![id] = ResetRec(@, w, r)]
    /\ heap' = ResetHeap(heap, ctxs[id])
    /\ sink' = Rebind(id, ctxs[id].response, w)
    /\ commits' = [commits EXCEPT ![id] = 0]
    /\ log' = <<>>
    /\ lastNext' = NoNext(id)
    /\ topCalls' = [topCalls EXCEPT ![id] = 0]
    /\ cut' = BeforeFirst
    /\ afterCut' = 0
    /\ lastOp' = [CalledWith("Reset", id, Nil, 0, w, r) EXCEPT !.dirty = Dirty(id)]
    /\ UNCHANGED <<stack, threads>>

----------------------------------------------------------------------------
(* params and values *)

SetParam_Clobbers(id, name, value) ==
    /\ Idle
    /\ heap' = [heap EXCEPT ![ctxs[id].params] = [k \in Keys |-> value]]
    /\ ReturnedWith("SetParam", id, Nil, 0, name, value)
    /\ UNCHANGED <<ctxs, sink, commits, ChainFrame, threads>>

SetParam(id, name, value) ==
    /\ Idle
    /\ heap' = [heap EXCEPT ![ctxs[id].params][name] = value]
    /\ ReturnedWith("SetParam", id, Nil, 0, name, value)
    /\ UNCHANGED <<ctxs, sink, commits, ChainFrame, threads>>

SetValue(id, key, value) ==
    /\ Idle
    /\ heap' = [heap EXCEPT ![ctxs[id].values][key] = value]
    /\ ReturnedWith("SetValue", id, Nil, 0, key, value)
    /\ UNCHANGED <<ctxs, sink, commits, ChainFrame, threads>>

----------------------------------------------------------------------------
(* The handler chain.  A handler is user code; the model knows four:       *)
(*   mw     records "before", calls Next(), records "after" with what Next *)
(*          returned, and returns it (the tests' middleware1/middleware2); *)
(*   final  records "handler" and returns nil without calling Next();      *)
(*   fail   records "handler" and returns a failure without calling Next();*)
(*   twice  as mw, but calls Next() a second time when the first returns   *)
(*          and returns what the second call returned.                     *)

Kinds == {"mw", "final", "fail", "twice"}

Chains == UNION {[1..n -> Kinds] : n \in 0..MaxChain}

Ev(pos, what, err) == [pos |-> pos, ev |-> what, err |-> err]

Frame(id, pos, kind) == [c |-> id, pos |-> pos, kind |-> kind, pc |-> "start", r |-> Nil]

Top == stack[Len(stack)]
Below == SubSeq(stack, 1, Len(stack) - 1)

(* SetHandlers(handlers) *)
SetHandlersRec_KeepsCursor(c, chain) == [c EXCEPT !.handlers = chain]

SetHandlersRec(c, chain) == [c EXCEPT !.handlers = chain, !.index = BeforeFirst]

SetHandlers(id, chain) ==
    /\ Idle
    /\ ctxs' = [ctxs EXCEPT ![id] = SetHandlersRec(@, chain)]
    /\ log' = <<>>
    /\ lastNext' = NoNext(id)
    /\ topCalls' = [topCalls EXCEPT ![id] = 0]
    /\ cut' = BeforeFirst
    /\ afterCut' = 0
    /\ lastOp' = [Called("SetHandlers", id, Nil) EXCEPT !.dirty = ctxs[id].index # BeforeFirst]
    /\ UNCHANGED <<heap, sink, commits, stack, threads>>

(* Next(): c.index++, then whether handlers[c.index] is invoked, and the   *)
(* result when it is not                                                   *)
NextOutcome_PastEndFails(c) ==
    LET i == c.index + 1
    IN  [index |-> i, invoke |-> i < Len(c.handlers), ret |-> Err("no handler")]

NextOutcome_SkipsFirst(c) ==
    LET i == IF c.index = BeforeFirst THEN 1 ELSE c.index + 1
    IN  [index |-> i, invoke |-> i < Len(c.handlers), ret |-> Nil]

NextOutcome_Stuck(c) ==
    LET i == IF c.index = BeforeFirst THEN 0 ELSE c.index
    IN  [index |-> i, invoke |-> i < Len(c.handlers), ret |-> Nil]

NextOutcome_SkipsOne(c) ==
    LET i == c.index + 2
    IN  [index |-> i, invoke |-> i < Len(c.handlers), ret |-> Nil]

NextOutcome(c) ==
    LET i == c.index + 1
    IN  [index |-> i, invoke |-> i < Len(c.handlers), ret |-> Nil]

(* return c.handlers[c.index](c): Next() returns what the handler returned *)
NextResult_Swallowed(v) == Nil

NextResult(v) == v

(* One Next() call on context id made from the code whose frames are st    *)
(* (empty: the outermost caller); retPc is where that code goes on.        *)
CallNext(id, st, retPc) ==
    LET o == NextOutcome(ctxs[id])
        n == Len(st)
    IN  /\ ctxs' = [ctxs EXCEPT ![id].index = o.index]
        /\ lastNext' = [c |-> id, idx |-> o.index, hit |-> o.invoke,
                        ret |-> IF o.invoke THEN Pending ELSE o.ret]
        /\ afterCut' = IF cut # BeforeFirst THEN afterCut + 1 ELSE afterCut
        /\ IF o.invoke
           THEN /\ stack' = Append(st, Frame(id, o.index, ctxs[id].handlers[o.index + 1]))
                /\ lastOp' = Called("Next", id, Pending)
           ELSE IF n = 0
           THEN /\ stack' = st
                /\ lastOp' = Called("Next", id, o.ret)
           ELSE /\ stack' = [st EXCEPT ![n].pc = retPc, ![n].r = o.ret]
                /\ lastOp' = Called("Next", id, Pending)

(* The outermost caller (the router) calls Next() *)
Next(id) ==
    /\ Idle
    /\ topCalls[id] < MaxTopCalls
    /\ CallNext(id, <<>>, "none")
    /\ topCalls' = [topCalls EXCEPT ![id] = @ + 1]
    /\ UNCHANGED <<heap, sink, commits, log, cut, threads>>

(* The handler on top of the stack returns v to the Next() that invoked it *)
HandlerReturns(v, calledNext) ==
    LET n == Len(Below)
        val == NextResult(v)
    IN  /\ IF n = 0
           THEN /\ stack' = <<>>
                /\ lastOp' = Called("Next", Top.c, val)
           ELSE /\ stack' = [Below EXCEPT ![n].pc = IF @ = "wait1" THEN "ret1" ELSE "ret2",
                                          ![n].r = val]
                /\ UNCHANGED lastOp
        /\ cut' = IF cut = BeforeFirst /\ ~calledNext THEN Top.pos ELSE cut

Running(kind) == stack # <<>> /\ Top.kind = kind

Waiting(pc) == [stack EXCEPT ![Len(stack)].pc = pc]

HandlerMw ==
    /\ Running("mw")
    /\ \/ /\ Top.pc = "start"
          /\ log' = Append(log, Ev(Top.pos, "before", Nil))
          /\ CallNext(Top.c, Waiting("wait1"), "ret1")
          /\ UNCHANGED <<heap, sink, commits, topCalls, cut, threads>>
       \/ /\ Top.pc = "ret1"
          /\ log' = Append(log, Ev(Top.pos, "after", Top.r))
          /\ HandlerReturns(Top.r, TRUE)
          /\ UNCHANGED <<ctxs, heap, sink, commits, lastNext, topCalls, afterCut, threads>>

HandlerFinal ==
    /\ Running("final")
    /\ log' = Append(log, Ev(Top.pos, "handler", Nil))
    /\ HandlerReturns(Nil, FALSE)
    /\ UNCHANGED <<ctxs, heap, sink, commits, lastNext, topCalls, afterCut, threads>>

HandlerFail ==
    /\ Running("fail")
    /\ log' = Append(log, Ev(Top.pos, "handler", Nil))
    /\ HandlerReturns(HandlerErr(Top.pos), FALSE)
    /\ UNCHANGED <<ctxs, heap, sink, commits, lastNext, topCalls, afterCut, threads>>

HandlerTwice ==
    /\ Running("twice")
    /\ \/ /\ Top.pc = "start"
          /\ log' = Append(log, Ev(Top.pos, "before", Nil))
          /\ CallNext(Top.c, Waiting("wait1"), "ret1")
          /\ UNCHANGED <<heap, sink, commits, topCalls, cut, threads>>
       \/ /\ Top.pc = "ret1"
          /\ CallNext(Top.c, Waiting("wait2"), "ret2")
          /\ UNCHANGED <<heap, sink, commits, log, topCalls, cut, threads>>
       \/ /\ Top.pc = "ret2"
          /\ log' = Append(log, Ev(Top.pos, "after", Top.r))
          /\ HandlerReturns(Top.r, TRUE)
          /\ UNCHANGED <<ctxs, heap, sink, commits, lastNext, topCalls, afterCut, threads>>

NextChain ==
    \/ \E id \in CtxIds, chain \in Chains : SetHandlers(id, chain)
    \/ \E id \in CtxIds : Next(id)
    \/ HandlerMw
    \/ HandlerFinal
    \/ HandlerFail
    \/ HandlerTwice

----------------------------------------------------------------------------
(* WithContext(ctx): the receiver itself for a nil ctx; otherwise a new    *)
(* AppContext with the request rebound to ctx, the same response sink, the *)
(* scalar fields copied, and fresh copies of params, values and handlers.  *)
(* The model follows one derivation, d := c.WithContext(ctx): the original *)
(* context c and the context d derived from it.  This is the call as its   *)
(* caller sees it when no other goroutine uses c meanwhile; its steps      *)
(* among other goroutines are ThreadWithContextCall .. Return below.       *)

CtxArgs == {"nil", "cancel"}

(* paramsCopy / valuesCopy: make + the copy loop *)
CopyMap(m) == [k \in DOMAIN m |-> m[k]]

(* handlersCopy: make + copy *)
CopyHandlers(h) == [i \in 1..Len(h) |-> h[i]]

DerivedRec_SharedMaps(c, cx, pAddr, vAddr) ==
    [request |-> [c.request EXCEPT !.cx = cx], response |-> c.response,
     statusCode |-> c.statusCode, headerWritten |-> c.headerWritten,
     written |-> c.written, index |-> c.index,
     params |-> c.params, values |-> c.values,
     handlers |-> CopyHandlers(c.handlers), mu |-> Unlocked]

DerivedRec_Fresh(c, cx, pAddr, vAddr) ==
    [request |-> [c.request EXCEPT !.cx = cx], response |-> c.response,
     statusCode |-> StatusOK, headerWritten |-> FALSE,
     written |-> FALSE, index |-> BeforeFirst,
     params |-> pAddr, values |-> vAddr,
     handlers |-> CopyHandlers(c.handlers), mu |-> Unlocked]

(* the &AppContext{...} literal; mu is a new, unlocked lock *)
DerivedRec(c, cx, pAddr, vAddr) ==
    [request |-> [c.request EXCEPT !.cx = cx], response |-> c.response,
     statusCode |-> c.statusCode, headerWritten |-> c.headerWritten,
     written |-> c.written, index |-> c.index,
     params |-> pAddr, values |-> vAddr,
     handlers |-> CopyHandlers(c.handlers), mu |-> Unlocked]

(* lastOp.key is the ctx argument *)
WithContext_RebindsReceiver(id, cx) ==
    /\ Idle
    /\ IF cx = "nil"
       THEN /\ ReturnedWith("WithContext", id, Ref(id), 0, cx, "")
            /\ UNCHANGED <<ctxs, heap, commits, topCalls>>
       ELSE /\ Len(ctxs) = 1
            /\ heap' = heap \o <<CopyMap(heap[ctxs[id].params]), CopyMap(heap[ctxs[id].values])>>
            /\ ctxs' = Append([ctxs EXCEPT ![id].request.cx = cx],
                              DerivedRec(ctxs[id], cx, Len(heap) + 1, Len(heap) + 2))
            /\ commits' = Append(commits, 0)
            /\ topCalls' = Append(topCalls, topCalls[id])
            /\ ReturnedWith("WithContext", id, Ref(Len(ctxs) + 1), 0, cx, "")
    /\ UNCHANGED <<sink, stack, log, lastNext, cut, afterCut, threads>>

WithContext_NilCopies(id, cx) ==
    /\ Idle
    /\ Len(ctxs) = 1
    /\ heap' = heap \o <<CopyMap(heap[ctxs[id].params]), CopyMap(heap[ctxs[id].values])>>
    /\ ctxs' = Append(ctxs, DerivedRec(ctxs[id], IF cx = "nil" THEN ctxs[id].request.cx ELSE cx,
                                       Len(heap) + 1, Len(heap) + 2))
    /\ commits' = Append(commits, 0)
    /\ topCalls' = Append(topCalls, topCalls[id])
    /\ ReturnedWith("WithContext", id, Ref(Len(ctxs) + 1), 0, cx, "")
    /\ UNCHANGED <<sink, stack, log, lastNext, cut, afterCut, threads>>

WithContext(id, cx) ==
    /\ Idle
    /\ IF cx = "nil"
       THEN /\ ReturnedWith("WithContext", id, Ref(id), 0, cx, "")
            /\ UNCHANGED <<ctxs, heap, commits, topCalls>>
       ELSE /\ Len(ctxs) = 1
            /\ heap' = heap \o <<CopyMap(heap[ctxs[id].params]), CopyMap(heap[ctxs[id].values])>>
            /\ ctxs' = Append(ctxs, DerivedRec(ctxs[id], cx, Len(heap) + 1, Len(heap) + 2))
            /\ commits' = Append(commits, 0)
            /\ topCalls' = Append(topCalls, topCalls[id])
            /\ ReturnedWith("WithContext", id, Ref(Len(ctxs) + 1), 0, cx, "")
    /\ UNCHANGED <<sink, stack, log, lastNext, cut, afterCut, threads>>

----------------------------------------------------------------------------
(* Param, SetParam, GetValue and SetValue called from several goroutines.  *)
(* Each call is: take the lock (c.mu.RLock() for the two readers,          *)
(* c.mu.Lock() for the two writers), access the map, release the lock      *)
(* (the deferred RUnlock/Unlock) and return.  A Go map assignment is not   *)
(* atomic: between its beginning and its end the entry is Torn, and a read *)
(* that finds it so is a data race.                                        *)
(* A goroutine's n and rec are the locals of a call that is made of        *)
(* several unlocked steps: how many fields it has assigned or read, and    *)
(* the AppContext literal WithContext is filling in.                       *)

Threads == {"t1", "t2", "t3"}
ReadOps == {"Param", "GetValue"}
WriteOps == {"SetParam", "SetValue"}
RLockOps == ReadOps \cup {"WithContext"}
Torn == "<torn>"

(* the &AppContext{} literal before any of its fields has been read *)
Blank ==
    [request |-> NewRequest("r1"), response |-> "",
     params |-> 0, values |-> 0, handlers |-> <<>>,
     index |-> 0, statusCode |-> 0,
     headerWritten |-> FALSE, written |-> FALSE, mu |-> Unlocked]

IdleThread ==
    [pc |-> "idle", op |-> "", key |-> "", val |-> "", ret |-> "", n |-> 0, rec |-> Blank]

(* a goroutine that the runtime has stopped *)
DeadThread == [IdleThread EXCEPT !.pc = "dead"]

(* c.handlers as an unlocked read may find it.  A slice is three words     *)
(* (pointer, length, capacity) and `c.handlers = handlers` stores them one *)
(* by one: a read made meanwhile takes its length from the old or the new  *)
(* slice and its elements from the old or the new array.                   *)
HandlersSeen(id) ==
    {ctxs[id].handlers} \cup {threads[u].rec.handlers : u \in {v \in Threads : threads[v].pc = "storing"}}

(* the zero HandlerFunc *)
NilHandler == "nil"

(* a goroutine's call ends in a run-time panic (index out of range, nil    *)
(* pointer dereference)                                                    *)
Panics(t, id) ==
    /\ threads' = [threads EXCEPT ![t] = DeadThread]
    /\ lastOp' = CalledWith("panic", id, Nil, 0, "", "")

(* sync.RWMutex *)
CanRLock(m) == m.writer = NoThread

CanLock_IgnoresReaders(m) == m.writer = NoThread

CanLock(m) == m.writer = NoThread /\ m.readers = 0

RLock(m) == [m EXCEPT !.readers = @ + 1]
RUnlock(m) == [m EXCEPT !.readers = @ - 1]
Lock(m, t) == [m EXCEPT !.writer = t]
Unlock(m) == [m EXCEPT !.writer = NoThread]

(* c.params for Param/SetParam, c.values for GetValue/SetValue *)
MapOf(id, op) == IF op \in {"Param", "SetParam"} THEN ctxs[id].params ELSE ctxs[id].values

(* goroutine t calls op(key) or op(key, val) on context id *)
ThreadCall(t, id, op, key, val) ==
    /\ threads[t].pc = "idle"
    /\ threads' = [threads EXCEPT ![t] = [IdleThread EXCEPT !.pc = "lock", !.op = op,
                                                             !.key = key, !.val = val]]
    /\ UNCHANGED <<ctxs, heap, sink, commits, ChainFrame, lastOp>>

(* c.mu.RLock() / c.mu.Lock(): blocks until the lock can be taken *)
ThreadLock(t, id) ==
    LET th == threads[t]
        m == ctxs[id].mu
    IN  /\ th.pc = "lock"
        /\ IF th.op \in RLockOps
           THEN CanRLock(m) /\ ctxs' = [ctxs EXCEPT ![id].mu = RLock(m)]
           ELSE CanLock(m) /\ ctxs' = [ctxs EXCEPT ![id].mu = Lock(m, t)]
        /\ threads' = [threads EXCEPT ![t].pc = "locked"]
        /\ UNCHANGED <<heap, sink, commits, ChainFrame, lastOp>>

(* return c.params[name] / return c.values[key] *)
ThreadRead(t, id) ==
    LET th == threads[t]
    IN  /\ th.pc = "locked" /\ th.op \in ReadOps
        /\ threads' = [threads EXCEPT
              ![t].pc = "done",
              ![t].ret = IF th.op = "Param" THEN Param(id, th.key) ELSE GetValue(id, th.key)]
        /\ UNCHANGED <<ctxs, heap, sink, commits, ChainFrame, lastOp>>

(* c.params[name] = value / c.values[key] = value: the assignment begins *)
ThreadWriteBegin(t, id) ==
    LET th == threads[t]
    IN  /\ th.pc = "locked" /\ th.op \in WriteOps
        /\ heap' = [heap EXCEPT ![MapOf(id, th.op)][th.key] = Torn]
        /\ threads' = [threads EXCEPT ![t].pc = "writing"]
        /\ UNCHANGED <<ctxs, sink, commits, ChainFrame, lastOp>>

(* ... and ends *)
ThreadWriteEnd(t, id) ==
    LET th == threads[t]
    IN  /\ th.pc = "writing"
        /\ heap' = [heap EXCEPT ![MapOf(id, th.op)][th.key] = th.val]
        /\ threads' = [threads EXCEPT ![t].pc = "done"]
        /\ UNCHANGED <<ctxs, sink, commits, ChainFrame, lastOp>>

(* the deferred c.mu.RUnlock() / c.mu.Unlock(), and the return *)
ThreadUnlock(t, id) ==
    LET th == threads[t]
        m == ctxs[id].mu
    IN  /\ th.pc = "done"
        /\ ctxs' = [ctxs EXCEPT ![id].mu = IF th.op \in ReadOps THEN RUnlock(m) ELSE Unlock(m)]
        /\ threads' = [threads EXCEPT ![t] = IdleThread]
        /\ lastOp' = CalledWith(th.op, id, Nil, 0, th.key,
                                IF th.op \in ReadOps THEN th.ret ELSE th.val)
        /\ UNCHANGED <<heap, sink, commits, ChainFrame>>

----------------------------------------------------------------------------
(* Reset(w, r) called by the pool's goroutine while other goroutines still *)
(* hold the context.  Reset takes no lock: it assigns the six scalar       *)
(* fields one after the other, deletes the entries of params, then those   *)
(* of values, then truncates the chain: each assignment, the beginning and *)
(* the end of each loop are steps.  An entry whose deletion is under       *)
(* way is Torn.  Nothing clears a map again once its loop has ended: what  *)
(* another goroutine writes to it afterwards is there when Reset returns,  *)
(* and an entry written while the loop runs is a data race that the loop   *)
(* deletes or misses.                                                      *)

(* the assignments of Reset, in their order *)
ResetFields == <<"request", "response", "statusCode", "headerWritten", "written", "index">>

(* goroutine t is in one of Reset's two delete loops *)
Clearing(t) == threads[t].pc \in {"params", "values"}

(* goroutine t is somewhere in Reset *)
Resetting(t) == threads[t].op = "Reset"

(* a map whose entries are being deleted *)
TearMap(m) == [k \in DOMAIN m |-> IF m[k] = Absent THEN Absent ELSE Torn]

(* the map when the delete loop over it ends: the entries the loop found   *)
(* are gone, an entry written meanwhile is kept or deleted                 *)
LoopEnd(m, keep) ==
    [k \in DOMAIN m |-> IF m[k] \in {Absent, Torn} THEN Absent
                         ELSE IF keep THEN m[k] ELSE Absent]

(* a sink that a WithContext under way has read into its literal *)
BeingDerived(w) == \E u \in Threads : threads[u].op = "WithContext" /\ threads[u].rec.response = w

(* c.request = r *)
ThreadResetBegin(t, id, w, r) ==
    LET c == ctxs[id]
    IN  /\ threads[t].pc = "idle"
        /\ \A u \in Threads : ~Resetting(u)
        /\ ~sink[w].live /\ ~BeingDerived(w)
        /\ ctxs' = [ctxs EXCEPT ![id].request = ResetRec(c, w, r).request]
        /\ threads' = [threads EXCEPT ![t] = [IdleThread EXCEPT !.pc = "assign", !.op = "Reset",
                                                                 !.key = w, !.val = r, !.n = 1]]
        /\ UNCHANGED <<heap, sink, commits, ChainFrame, lastOp>>

(* c.response = w; c.statusCode = http.StatusOK; c.headerWritten = false;  *)
(* c.written = false; c.index = -1 : one assignment a step                 *)
ThreadResetAssign(t, id) ==
    LET th == threads[t]
        c == ctxs[id]
        f == ResetFields[th.n + 1]
    IN  /\ th.pc = "assign"
        /\ ctxs' = [ctxs EXCEPT ![id][f] = ResetRec(c, th.key, th.val)[f]]
        /\ IF f = "response"
           THEN /\ sink' = Rebind(id, c.response, th.key)
                /\ commits' = [commits EXCEPT ![id] = 0]
           ELSE UNCHANGED <<sink, commits>>
        /\ threads' = [threads EXCEPT ![t].n = th.n + 1,
                                      ![t].pc = IF th.n + 1 = Len(ResetFields) THEN "loop"
                                                ELSE "assign"]
        /\ UNCHANGED <<heap, ChainFrame, lastOp>>

(* for k := range c.params { delete(c.params, k) } begins *)
ThreadResetParams(t, id) ==
    /\ threads[t].pc = "loop"
    /\ heap' = [heap EXCEPT ![ctxs[id].params] = TearMap(@)]
    /\ threads' = [threads EXCEPT ![t].pc = "params"]
    /\ UNCHANGED <<ctxs, sink, commits, ChainFrame, lastOp>>

(* ... and ends *)
ThreadResetParamsEnd(t, id, keep) ==
    /\ threads[t].pc = "params"
    /\ heap' = [heap EXCEPT ![ctxs[id].params] = LoopEnd(@, keep)]
    /\ threads' = [threads EXCEPT ![t].pc = "loop2"]
    /\ UNCHANGED <<ctxs, sink, commits, ChainFrame, lastOp>>

(* for k := range c.values { delete(c.values, k) } begins *)
ThreadResetValues(t, id) ==
    /\ threads[t].pc = "loop2"
    /\ heap' = [heap EXCEPT ![ctxs[id].values] = TearMap(@)]
    /\ threads' = [threads EXCEPT ![t].pc = "values"]
    /\ UNCHANGED <<ctxs, sink, commits, ChainFrame, lastOp>>

(* ... and ends *)
ThreadResetValuesEnd(t, id, keep) ==
    /\ threads[t].pc = "values"
    /\ heap' = [heap EXCEPT ![ctxs[id].values] = LoopEnd(@, keep)]
    /\ threads' = [threads EXCEPT ![t].pc = "truncate"]
    /\ UNCHANGED <<ctxs, sink, commits, ChainFrame, lastOp>>

(* c.handlers = c.handlers[:0]; return *)
ThreadResetEnd(t, id) ==
    LET th == threads[t]
    IN  /\ th.pc = "truncate"
        /\ ctxs' = [ctxs EXCEPT ![id].handlers = ResetRec(ctxs[id], th.key, th.val).handlers]
        /\ threads' = [threads EXCEPT ![t] = IdleThread]
        /\ lastOp' = CalledWith("Reset", id, Nil, 0, th.key, th.val)
        /\ UNCHANGED <<heap, sink, commits, ChainFrame>>

----------------------------------------------------------------------------
(* WithContext(ctx) called by a goroutine while others use the context.    *)
(* It reads c.request, takes the read lock, copies params, copies values,  *)
(* releases the lock, and only then reads c.handlers, c.response,          *)
(* c.statusCode, c.headerWritten, c.written and c.index, unlocked, one     *)
(* after the other, into the literal it returns.  A copy that finds an     *)
(* entry Torn has read it while Reset was deleting it.  c.handlers is read *)
(* twice: its length for make, then the slice for copy.                    *)

(* what WithContext reads after c.mu.RUnlock(), in the order it reads it *)
ReadFields ==
    <<"len", "handlers", "response", "statusCode", "headerWritten", "written", "index">>

HasTorn(m) == \E k \in DOMAIN m : m[k] = Torn

(* if ctx == nil { return c }; newRequest := c.request.WithContext(ctx) *)
ThreadWithContextCall(t, id, cx) ==
    /\ threads[t].pc = "idle"
    /\ IF cx = "nil"
       THEN /\ lastOp' = CalledWith("WithContext", id, Ref(id), 0, cx, "")
            /\ UNCHANGED threads
       ELSE /\ Len(ctxs) = 1
            /\ \A u \in Threads : threads[u].op # "WithContext"
            /\ threads' = [threads EXCEPT ![t] =
                  [IdleThread EXCEPT !.pc = "lock", !.op = "WithContext", !.key = cx,
                                     !.rec.request = [ctxs[id].request EXCEPT !.cx = cx]]]
            /\ UNCHANGED lastOp
    /\ UNCHANGED <<ctxs, heap, sink, commits, ChainFrame>>

(* paramsCopy := make(..); for k, v := range c.params { paramsCopy[k] = v } *)
ThreadCopyParams(t, id) ==
    LET th == threads[t]
        m == heap[ctxs[id].params]
    IN  /\ th.pc = "locked" /\ th.op = "WithContext"
        /\ heap' = Append(heap, CopyMap(m))
        /\ threads' = [threads EXCEPT ![t].pc = "copying",
                                      ![t].rec.params = Len(heap) + 1,
                                      ![t].ret = IF HasTorn(m) THEN Torn ELSE th.ret]
        /\ UNCHANGED <<ctxs, sink, commits, ChainFrame, lastOp>>

(* valuesCopy := make(..); for k, v := range c.values { valuesCopy[k] = v } *)
ThreadCopyValues(t, id) ==
    LET th == threads[t]
        m == heap[ctxs[id].values]
    IN  /\ th.pc = "copying"
        /\ heap' = Append(heap, CopyMap(m))
        /\ threads' = [threads EXCEPT ![t].pc = "copied",
                                      ![t].rec.values = Len(heap) + 1,
                                      ![t].ret = IF HasTorn(m) THEN Torn ELSE th.ret]
        /\ UNCHANGED <<ctxs, sink, commits, ChainFrame, lastOp>>

(* c.mu.RUnlock() *)
ThreadCopyUnlock(t, id) ==
    /\ threads[t].pc = "copied"
    /\ ctxs' = [ctxs EXCEPT ![id].mu = RUnlock(@)]
    /\ threads' = [threads EXCEPT ![t].pc = "reading"]
    /\ UNCHANGED <<heap, sink, commits, ChainFrame, lastOp>>

(* make([]HandlerFunc, n) *)
MadeHandlers(n) == [i \in 1..n |-> NilHandler]

(* copy(dst, src) when it copies k elements *)
CopiedInto(dst, k, src) == [i \in 1..Len(dst) |-> IF i <= k THEN src[i] ELSE dst[i]]

Min(a, b) == IF a <= b THEN a ELSE b

(* the field of c that the literal reads next *)
FieldRead(c, f) == c[f]

(* handlersCopy := make([]HandlerFunc, len(c.handlers));                   *)
(* copy(handlersCopy, c.handlers); response: c.response,                   *)
(* statusCode: c.statusCode, headerWritten: c.headerWritten,               *)
(* written: c.written : one read a step                                    *)
ThreadWithContextRead(t, id) ==
    LET th == threads[t]
        f == ReadFields[th.n + 1]
    IN  /\ th.pc = "reading" /\ th.n + 1 < Len(ReadFields)
        /\ IF f = "len"
           THEN /\ \E v \in HandlersSeen(id) :
                      threads' = [threads EXCEPT ![t].n = th.n + 1,
                                                 ![t].rec.handlers = MadeHandlers(Len(v))]
                /\ UNCHANGED lastOp
           ELSE IF f = "handlers"
           THEN \E vl, vp \in HandlersSeen(id) :
                    LET k == Min(Len(th.rec.handlers), Len(vl))
                    IN  IF k <= Len(vp)
                        THEN /\ threads' = [threads EXCEPT
                                    ![t].n = th.n + 1,
                                    ![t].rec.handlers = CopiedInto(th.rec.handlers, k, vp)]
                             /\ UNCHANGED lastOp
                        ELSE Panics(t, id)
           ELSE /\ threads' = [threads EXCEPT ![t].n = th.n + 1,
                                              ![t].rec[f] = FieldRead(ctxs[id], f)]
                /\ UNCHANGED lastOp
        /\ UNCHANGED <<ctxs, heap, sink, commits, ChainFrame>>

(* index: c.index, and the literal is returned *)
ThreadWithContextReturn(t, id) ==
    LET th == threads[t]
        f == ReadFields[th.n + 1]
    IN  /\ th.pc = "reading" /\ th.n + 1 = Len(ReadFields)
        /\ ctxs' = Append(ctxs, [th.rec EXCEPT ![f] = FieldRead(ctxs[id], f)])
        /\ commits' = Append(commits, 0)
        /\ topCalls' = Append(topCalls, topCalls[id])
        /\ threads' = [threads EXCEPT ![t] = IdleThread]
        /\ lastOp' = CalledWith("WithContext", id, Ref(Len(ctxs) + 1), 0, th.key, "")
        /\ UNCHANGED <<heap, sink, stack, log, lastNext, cut, afterCut>>

----------------------------------------------------------------------------
(* The Go runtime stops the program ("fatal error: concurrent map writes", *)
(* "concurrent map read and map write", "concurrent map iteration and map  *)
(* write") when an access to a map finds another goroutine writing to it.  *)
(* It is one of the outcomes of the race, not a certainty.                 *)

(* goroutine u is writing to the map at addr *)
WritingAt(u, id, addr) ==
    \/ threads[u].pc = "writing" /\ MapOf(id, threads[u].op) = addr
    \/ threads[u].pc = "params" /\ addr = ctxs[id].params /\ HasTorn(heap[addr])
    \/ threads[u].pc = "values" /\ addr = ctxs[id].values /\ HasTorn(heap[addr])

(* goroutine t is at, or about to be at, the map at addr *)
AccessingAt(t, id, addr) ==
    LET th == threads[t]
    IN  \/ th.pc \in {"locked", "writing"} /\ th.op # "WithContext" /\ MapOf(id, th.op) = addr
        \/ th.pc = "locked" /\ th.op = "WithContext" /\ addr = ctxs[id].params
        \/ th.pc = "copying" /\ addr = ctxs[id].values
        \/ th.pc \in {"loop", "params"} /\ addr = ctxs[id].params
        \/ th.pc \in {"loop2", "values"} /\ addr = ctxs[id].values

ThreadFatal(t, id) ==
    /\ \E u \in Threads \ {t}, addr \in {ctxs[id].params, ctxs[id].values} :
            WritingAt(u, id, addr) /\ AccessingAt(t, id, addr)
    /\ threads' = [u \in Threads |-> DeadThread]
    /\ lastOp' = CalledWith("fatal", id, Nil, 0, "", "")
    /\ UNCHANGED <<ctxs, heap, sink, commits, ChainFrame>>

----------------------------------------------------------------------------
(* NoContent(statusCode) called from several goroutines on one context.    *)
(* Neither NoContent nor writeHeaderOnce takes a lock, so the steps of one *)
(* call interleave with the steps of another: c.Status(statusCode), the    *)
(* test `!c.headerWritten`, the evaluation of c.Response() and             *)
(* c.statusCode, the WriteHeader call, the assignment c.headerWritten =    *)
(* true, and c.written = true with the return.  A goroutine's key and n    *)
(* are the sink and the status code it has evaluated for its WriteHeader   *)
(* call.                                                                   *)

(* c.Status(statusCode) *)
ThreadStatus(t, id, code) ==
    /\ threads[t].pc = "idle"
    /\ Install(StatusW(World, id, code))
    /\ threads' = [threads EXCEPT ![t] = [IdleThread EXCEPT !.pc = "check", !.op = "NoContent",
                                                             !.val = code]]
    /\ UNCHANGED <<heap, ChainFrame, lastOp>>

(* if !c.headerWritten *)
ThreadHeaderCheck(t, id) ==
    /\ threads[t].pc = "check"
    /\ threads' = [threads EXCEPT ![t].pc = IF ~ctxs[id].headerWritten THEN "load" ELSE "mark"]
    /\ UNCHANGED <<ctxs, heap, sink, commits, ChainFrame, lastOp>>

(* c.Response() and c.statusCode, the receiver and the argument of the     *)
(* WriteHeader call, are evaluated                                         *)
ThreadHeaderLoad(t, id) ==
    /\ threads[t].pc = "load"
    /\ threads' = [threads EXCEPT ![t].pc = "commit",
                                  ![t].key = Response(id),
                                  ![t].n = GetStatusCode(id)]
    /\ UNCHANGED <<ctxs, heap, sink, commits, ChainFrame, lastOp>>

(* c.Response().WriteHeader(c.statusCode): the call *)
ThreadHeaderCommit(t, id) ==
    LET th == threads[t]
    IN  /\ th.pc = "commit"
        /\ sink' = [sink EXCEPT ![th.key] = SinkWriteHeader(@, th.n)]
        /\ commits' = [commits EXCEPT ![id] = @ + 1]
        /\ threads' = [threads EXCEPT ![t].pc = "flag"]
        /\ UNCHANGED <<ctxs, heap, ChainFrame, lastOp>>

(* c.headerWritten = true *)
ThreadHeaderFlag(t, id) ==
    /\ threads[t].pc = "flag"
    /\ ctxs' = [ctxs EXCEPT ![id].headerWritten = TRUE]
    /\ threads' = [threads EXCEPT ![t].pc = "mark"]
    /\ UNCHANGED <<heap, sink, commits, ChainFrame, lastOp>>

(* c.written = true; return nil *)
ThreadWritten(t, id) ==
    /\ threads[t].pc = "mark"
    /\ Install(SetWrittenW(World, id))
    /\ threads' = [threads EXCEPT ![t] = IdleThread]
    /\ lastOp' = CalledWith("NoContent", id, Nil, threads[t].val, "", "")
    /\ UNCHANGED <<heap, ChainFrame>>

----------------------------------------------------------------------------
(* SetHandlers(handlers) called by one goroutine while others use the      *)
(* context: two unlocked assignments, the first of a three-word slice.     *)

(* c.handlers = handlers begins *)
ThreadSetHandlers(t, id, chain) ==
    /\ threads[t].pc = "idle"
    /\ threads' = [threads EXCEPT ![t] =
          [IdleThread EXCEPT !.pc = "storing", !.op = "SetHandlers",
                             !.rec.handlers = SetHandlersRec(ctxs[id], chain).handlers]]
    /\ UNCHANGED <<ctxs, heap, sink, commits, ChainFrame, lastOp>>

(* ... and ends *)
ThreadStoreHandlers(t, id) ==
    /\ threads[t].pc = "storing"
    /\ ctxs' = [ctxs EXCEPT ![id].handlers = threads[t].rec.handlers]
    /\ threads' = [threads EXCEPT ![t].pc = "rewind"]
    /\ UNCHANGED <<heap, sink, commits, ChainFrame, lastOp>>

(* c.index = -1; return *)
ThreadRewind(t, id) ==
    /\ threads[t].pc = "rewind"
    /\ ctxs' = [ctxs EXCEPT ![id].index = SetHandlersRec(ctxs[id], ctxs[id].handlers).index]
    /\ log' = <<>>
    /\ lastNext' = NoNext(id)
    /\ topCalls' = [topCalls EXCEPT ![id] = 0]
    /\ cut' = BeforeFirst
    /\ afterCut' = 0
    /\ threads' = [threads EXCEPT ![t] = IdleThread]
    /\ lastOp' = [Called("SetHandlers", id, Nil) EXCEPT !.dirty = ctxs[id].index # BeforeFirst]
    /\ UNCHANGED <<heap, sink, commits, stack>>

----------------------------------------------------------------------------
(* Next() called by the chain's goroutine while others use the context.    *)
(* Next takes no lock: c.index++ is a load and a store, and the test       *)
(* `c.index < len(c.handlers)` and the call `c.handlers[c.index](c)` read   *)
(* c.index and c.handlers again, or use the value the goroutine still has  *)
(* in a register: the build decides, so both happen.                       *)

(* c.index++ : the load *)
ThreadNextLoad(t, id) ==
    /\ threads[t].pc = "idle" /\ stack = <<>>
    /\ topCalls[id] < MaxTopCalls /\ ctxs[id].index < MaxTopCalls
    /\ threads' = [threads EXCEPT ![t] = [IdleThread EXCEPT !.pc = "inc", !.op = "Next",
                                                             !.n = ctxs[id].index]]
    /\ topCalls' = [topCalls EXCEPT ![id] = @ + 1]
    /\ UNCHANGED <<ctxs, heap, sink, commits, stack, log, lastNext, cut, afterCut, lastOp>>

(* c.index++ : the store *)
ThreadNextStore(t, id) ==
    LET th == threads[t]
    IN  /\ th.pc = "inc"
        /\ ctxs' = [ctxs EXCEPT ![id].index = th.n + 1]
        /\ threads' = [threads EXCEPT ![t].pc = "test", ![t].n = th.n + 1]
        /\ UNCHANGED <<heap, sink, commits, ChainFrame, lastOp>>

(* if c.index < len(c.handlers) { ... }; return nil *)
ThreadNextTest(t, id, reread) ==
    LET th == threads[t]
        i == IF reread THEN ctxs[id].index ELSE th.n
    IN  /\ th.pc = "test"
        /\ \E v \in HandlersSeen(id) :
              IF i < Len(v)
              THEN /\ threads' = [threads EXCEPT ![t].pc = "invoke", ![t].n = i]
                   /\ UNCHANGED <<lastNext, afterCut, lastOp>>
              ELSE /\ threads' = [threads EXCEPT ![t] = IdleThread]
                   /\ lastNext' = [c |-> id, idx |-> i, hit |-> FALSE, ret |-> Nil]
                   /\ afterCut' = IF cut # BeforeFirst THEN afterCut + 1 ELSE afterCut
                   /\ lastOp' = Called("Next", id, Nil)
        /\ UNCHANGED <<ctxs, heap, sink, commits, stack, log, topCalls, cut>>

(* return c.handlers[c.index](c): the element is fetched and invoked *)
ThreadNextInvoke(t, id, reread) ==
    LET th == threads[t]
        j == IF reread THEN ctxs[id].index ELSE th.n
    IN  /\ th.pc = "invoke"
        /\ \E vl, vp \in HandlersSeen(id) :
              IF j >= 0 /\ j < Len(vl) /\ j < Len(vp)
              THEN /\ stack' = <<Frame(id, j, vp[j + 1])>>
                   /\ threads' = [threads EXCEPT ![t].pc = "running", ![t].n = j]
                   /\ lastNext' = [c |-> id, idx |-> j, hit |-> TRUE, ret |-> Pending]
                   /\ afterCut' = IF cut # BeforeFirst THEN afterCut + 1 ELSE afterCut
                   /\ lastOp' = Called("Next", id, Pending)
              ELSE /\ Panics(t, id)
                   /\ UNCHANGED <<stack, lastNext, afterCut>>
        /\ UNCHANGED <<ctxs, heap, sink, commits, log, topCalls, cut>>

(* the handler has returned: Next returns what it returned *)
ThreadNextReturn(t, id) ==
    /\ threads[t].pc = "running" /\ stack = <<>>
    /\ threads' = [threads EXCEPT ![t] = IdleThread]
    /\ UNCHANGED <<ctxs, heap, sink, commits, ChainFrame, lastOp>>

----------------------------------------------------------------------------
(* Reading the request.  Where the text of a string matters it is a        *)
(* sequence of one-character strings; "" is <<>>.                          *)

MaxSegments == 3    \* "&"-separated segments in a query string
MaxForwarded == 3   \* characters in an X-Forwarded-For value
MaxRealIP == 2      \* characters in an X-Real-IP value
MaxRemote == 3      \* characters in a RemoteAddr

Strings(alphabet, n) == UNION {[1..k -> alphabet] : k \in 0..n}

(* strings.Index(s, ch): the 0-based position of the first ch, or -1 *)
Index(s, ch) ==
    LET hits == {i \in 1..Len(s) : s[i] = ch}
    IN  IF hits = {} THEN -1 ELSE (CHOOSE i \in hits : \A j \in hits : i <= j) - 1

(* strings.LastIndex(s, ch) *)
LastIndex(s, ch) ==
    LET hits == {i \in 1..Len(s) : s[i] = ch}
    IN  IF hits = {} THEN -1 ELSE (CHOOSE i \in hits : \A j \in hits : i >= j) - 1

(* s[:n] and s[n:] *)
Prefix(s, n) == SubSeq(s, 1, n)
Suffix(s, n) == SubSeq(s, n + 1, Len(s))

(* unicode.IsSpace: the characters strings.TrimSpace strips.  A character  *)
(* that a TLA+ string cannot hold stands as the name of its code point.    *)
WhiteSpace ==
    {"\t", "\n", "U+000B", "\f", "\r", " ", "U+0085", "U+00A0", "U+1680",
     "U+2000", "U+2001", "U+2002", "U+2003", "U+2004", "U+2005", "U+2006",
     "U+2007", "U+2008", "U+2009", "U+200A", "U+2028", "U+2029", "U+202F",
     "U+205F", "U+3000"}

(* strings.TrimSpace *)
RECURSIVE TrimLeft(_)
TrimLeft(s) == IF s # <<>> /\ Head(s) \in WhiteSpace THEN TrimLeft(Tail(s)) ELSE s

RECURSIVE TrimRight(_)
TrimRight(s) ==
    IF s # <<>> /\ s[Len(s)] \in WhiteSpace THEN TrimRight(Prefix(s, Len(s) - 1)) ELSE s

TrimSpace(s) == TrimRight(TrimLeft(s))

(* The http.Request of a request-reading specification: its Body (the      *)
(* address in the heap of the stream it points to, NilBody when the field  *)
(* is nil), its header fields (http.Header: each field holds the list of   *)
(* its values, empty when the field is not there), the raw query of its    *)
(* URL and the transport's RemoteAddr.  Request.WithContext copies the     *)
(* struct, not the stream: the copy's Body is the same address.            *)
NilBody == 0
BodyAddr == 3

(* an io.ReadCloser and what is left to read from it *)
NewBody(b) == [stream |-> b]

RequestHeaders == {"Content-Type", "X-Forwarded-For", "X-Real-IP"}

HttpRequest(r, body, contentType, query, forwarded, realIP, remoteAddr) ==
    [req |-> r, cx |-> "background", body |-> IF body = "nil" THEN NilBody ELSE BodyAddr,
     header |-> [h \in RequestHeaders |->
                    CASE h = "Content-Type" -> contentType
                      [] h = "X-Forwarded-For" -> forwarded
                      [] h = "X-Real-IP" -> realIP],
     query |-> query, remoteAddr |-> remoteAddr]

(* GetHeader(key): c.request.Header.Get(key), the first value of the field, *)
(* "" for a field that is not there                                        *)
GetHeader(id, key) ==
    LET vs == ctxs[id].request.header[key] IN IF vs = <<>> THEN <<>> ELSE vs[1]

(* Calls that read the request change nothing (but for Body, which reads   *)
(* the body stream)                                                        *)
Reads(op, id, ret, key) ==
    /\ Idle
    /\ ReturnedWith(op, id, ret, 0, key, "")
    /\ UNCHANGED <<ctxs, heap, sink, commits, ChainFrame, threads>>

(* ---- the query string ---- *)

(* strings.Cut(s, sep) *)
Cut(s, sep) ==
    LET i == Index(s, sep)
    IN  IF i = -1 THEN [before |-> s, after |-> <<>>, found |-> FALSE]
        ELSE [before |-> Prefix(s, i), after |-> Suffix(s, i + 1), found |-> TRUE]

(* the hexadecimal digits by value, and the printable ASCII characters     *)
(* from 0x20 to 0x7E by code (the grave accent, which a TLA+ string cannot *)
(* hold, as the name of its code point)                                    *)
HexDigits == <<"0", "1", "2", "3", "4", "5", "6", "7", "8", "9", "A", "B", "C", "D", "E", "F">>
LowerHex == <<"a", "b", "c", "d", "e", "f">>

Printable ==
    <<" ", "!", "\"", "#", "$", "%", "&", "'", "(", ")", "*", "+",
      ",", "-", ".", "/", "0", "1", "2", "3", "4", "5", "6", "7",
      "8", "9", ":", ";", "<", "=", ">", "?", "@", "A", "B", "C",
      "D", "E", "F", "G", "H", "I", "J", "K", "L", "M", "N", "O",
      "P", "Q", "R", "S", "T", "U", "V", "W", "X", "Y", "Z", "[",
      "\\", "]", "^", "_", "U+0060", "a", "b", "c", "d", "e", "f", "g",
      "h", "i", "j", "k", "l", "m", "n", "o", "p", "q", "r", "s",
      "t", "u", "v", "w", "x", "y", "z", "{", "|", "}", "~">>

(* net/url ishex and unhex *)
ishex(ch) ==
    \/ \E i \in 1..16 : HexDigits[i] = ch
    \/ \E i \in 1..6 : LowerHex[i] = ch

unhex(ch) ==
    IF \E i \in 1..16 : HexDigits[i] = ch
    THEN (CHOOSE i \in 1..16 : HexDigits[i] = ch) - 1
    ELSE (CHOOSE i \in 1..6 : LowerHex[i] = ch) + 9

(* the character a decoded byte is.  A byte that is not printable ASCII    *)
(* stands as its name: its code point below 0x80, the byte itself (a part  *)
(* of a UTF-8 sequence) from 0x80 on.                                      *)
ByteChar(b) ==
    IF b \in 32..126 THEN Printable[b - 31]
    ELSE IF b = 9 THEN "\t"
    ELSE IF b = 10 THEN "\n"
    ELSE IF b = 12 THEN "\f"
    ELSE IF b = 13 THEN "\r"
    ELSE (IF b < 128 THEN "U+00" ELSE "0x") \o HexDigits[(b \div 16) + 1] \o HexDigits[(b % 16) + 1]

(* the first pass of net/url unescape: every "%" is followed by two        *)
(* hexadecimal digits                                                      *)
RECURSIVE WellEscaped(_)
WellEscaped(s) ==
    IF s = <<>> THEN TRUE
    ELSE IF Head(s) = "%"
         THEN Len(s) >= 3 /\ ishex(s[2]) /\ ishex(s[3]) /\ WellEscaped(Suffix(s, 3))
         ELSE WellEscaped(Tail(s))

(* its second pass: "%XX" becomes the byte XX and "+" a space *)
RECURSIVE Unescaped(_)
Unescaped(s) ==
    IF s = <<>> THEN <<>>
    ELSE IF Head(s) = "%"
         THEN <<ByteChar(unhex(s[2]) * 16 + unhex(s[3]))>> \o Unescaped(Suffix(s, 3))
         ELSE IF Head(s) = "+" THEN <<" ">> \o Unescaped(Tail(s))
         ELSE <<Head(s)>> \o Unescaped(Tail(s))

(* url.QueryUnescape(s): the decoded string, or an EscapeError *)
QueryUnescape(s) ==
    IF WellEscaped(s) THEN [s |-> Unescaped(s), err |-> FALSE]
    ELSE [s |-> <<>>, err |-> TRUE]

(* url.ParseQuery, which c.request.URL.Query() calls, dropping its error:   *)
(* the (key, value) pairs of the "&"-separated segments, in order.  A      *)
(* segment is left out when it holds a ";", when it is empty, or when its  *)
(* key or its value does not unescape.                                     *)
RECURSIVE ParseQuery(_)
ParseQuery(query) ==
    IF query = <<>> THEN <<>>
    ELSE LET seg == Cut(query, "&")
             kv == Cut(seg.before, "=")
             key == QueryUnescape(kv.before)
             value == QueryUnescape(kv.after)
         IN  IF Index(seg.before, ";") # -1 \/ seg.before = <<>> \/ key.err \/ value.err
             THEN ParseQuery(seg.after)
             ELSE <<[key |-> key.s, value |-> value.s]>> \o ParseQuery(seg.after)

(* url.Values[name]: every value of the key, in order *)
RECURSIVE ValuesOf(_, _)
ValuesOf(pairs, name) ==
    IF pairs = <<>> THEN <<>>
    ELSE IF Head(pairs).key = name
         THEN <<Head(pairs).value>> \o ValuesOf(Tail(pairs), name)
         ELSE ValuesOf(Tail(pairs), name)

(* url.Values.Get(name): the first value of the key, or "" *)
ValuesGet(pairs, name) ==
    LET vs == ValuesOf(pairs, name) IN IF vs = <<>> THEN <<>> ELSE vs[1]

(* c.request.URL.Query().Get(name) *)
QueryOf(id, name) == ValuesGet(ParseQuery(ctxs[id].request.query), name)

(* value := c.Query(name); if value == "" { return defaultValue }; return value *)
QueryDefaultOf(id, name, defaultValue) ==
    LET value == QueryOf(id, name)
    IN  IF value = <<>> THEN defaultValue ELSE value

(* c.request.URL.Query()[name] *)
QueryArrayOf_Reversed(id, name) ==
    LET vs == ValuesOf(ParseQuery(ctxs[id].request.query), name)
    IN  [i \in 1..Len(vs) |-> vs[Len(vs) + 1 - i]]

QueryArrayOf(id, name) == ValuesOf(ParseQuery(ctxs[id].request.query), name)

(* a name as the sequence of its characters: the names here have one character *)
Chars(name) == IF name = "" THEN <<>> ELSE <<name>>

Query(id, name) == Reads("Query", id, QueryOf(id, Chars(name)), name)

QueryDefault(id, name, defaultValue) ==
    Reads("QueryDefault", id, QueryDefaultOf(id, Chars(name), defaultValue), name)

QueryArray(id, name) == Reads("QueryArray", id, QueryArrayOf(id, Chars(name)), name)

(* ---- ClientIP ---- *)

ClientIPOf_RealIPFirst(id) ==
    LET fwd == GetHeader(id, "X-Forwarded-For")
        real == GetHeader(id, "X-Real-IP")
        addr == ctxs[id].request.remoteAddr
    IN  IF real # <<>> THEN TrimSpace(real)
        ELSE IF fwd # <<>>
        THEN IF Index(fwd, ",") # -1 THEN TrimSpace(Prefix(fwd, Index(fwd, ",")))
             ELSE TrimSpace(fwd)
        ELSE IF LastIndex(addr, ":") # -1 THEN Prefix(addr, LastIndex(addr, ":"))
        ELSE addr

ClientIPOf(id) ==
    LET fwd == GetHeader(id, "X-Forwarded-For")
        real == GetHeader(id, "X-Real-IP")
        addr == ctxs[id].request.remoteAddr
    IN  IF fwd # <<>>
        THEN IF Index(fwd, ",") # -1 THEN TrimSpace(Prefix(fwd, Index(fwd, ",")))
             ELSE TrimSpace(fwd)
        ELSE IF real # <<>> THEN TrimSpace(real)
        ELSE IF LastIndex(addr, ":") # -1 THEN Prefix(addr, LastIndex(addr, ":"))
        ELSE addr

ClientIP(id) == Reads("ClientIP", id, ClientIPOf(id), "")

(* ---- Body ---- *)

(* c.request.Body: the field is nil (a request built by hand without a     *)
(* body); http.NoBody, which is what the server and httptest.NewRequest    *)
(* put there when the request has no body; a stream holding a payload that *)
(* decodes; one holding a payload that does not; a stream already read.    *)
Bodies == {"nil", "NoBody", "valid", "invalid", "drained"}

(* A Content-Type value as the sequence of its parts *)
ContentTypes ==
    {<<CTJson>>, <<CTJson, "; charset=utf-8">>, <<"text/plain">>,
     <<"text/plain", "; note=", CTJson>>}

(* strings.Contains(contentType, "application/json") *)
ContainsJSON(contentType) == \E i \in 1..Len(contentType) : contentType[i] = CTJson

(* json.NewDecoder(c.request.Body).Decode(v): what it returns and what it  *)
(* leaves of the stream                                                    *)
Decode(body) ==
    CASE body = "valid" -> [ret |-> Nil, body |-> "drained"]
      [] body = "invalid" -> [ret |-> Err("invalid character"), body |-> "drained"]
      [] OTHER -> [ret |-> Err("EOF"), body |-> body]

(* c.request.Body as Body finds it *)
BodyOf(id) ==
    LET a == ctxs[id].request.body IN IF a = NilBody THEN "nil" ELSE heap[a].stream

BodyOutcome(id) ==
    LET b == BodyOf(id)
        contentType == GetHeader(id, "Content-Type")
    IN  IF b = "nil" THEN [ret |-> Err("request body is empty"), body |-> b]
        ELSE IF ContainsJSON(contentType) THEN Decode(b)
        ELSE [ret |-> Err("unsupported content type"), body |-> b]

(* Body(v); lastOp.text is the body the call found.  What it reads is gone *)
(* from the stream for every request that points to it.                    *)
Body(id) ==
    LET o == BodyOutcome(id)
        a == ctxs[id].request.body
    IN  /\ Idle
        /\ heap' = IF a = NilBody THEN heap ELSE [heap EXCEPT ![a] = NewBody(o.body)]
        /\ ReturnedWith("Body", id, o.ret, 0, "", BodyOf(id))
        /\ UNCHANGED <<ctxs, sink, commits, ChainFrame, threads>>

----------------------------------------------------------------------------
(* The state after NewContext(w1, r1) *)

Init ==
    /\ heap = <<EmptyMap, EmptyMap>>
    /\ ctxs = <<NewContextRec("w1", "r1", 1, 2)>>
    /\ sink = [w \in Sinks |-> IF w = "w1" THEN NewSink ELSE Released]
    /\ commits = <<0>>
    /\ stack = <<>>
    /\ log = <<>>
    /\ lastNext = NoNext(1)
    /\ topCalls = <<0>>
    /\ cut = BeforeFirst
    /\ afterCut = 0
    /\ lastOp = Called("NewContext", 1, Nil)
    /\ threads = [t \in Threads |-> IdleThread]

(* Inputs of the response-writing specification *)
CustomHeaders == {"Content-Type", "Location"}
WriteStatuses == {201, 500}
RedirectStatuses == {200, 302}
DataTypes == {CTData, "image/png"}

NextWrite ==
    \/ \E id \in CtxIds, code \in WriteStatuses, ok \in BOOLEAN : JSON(id, code, ok)
    \/ \E id \in CtxIds, code \in WriteStatuses, ok \in BOOLEAN : String(id, code, ok)
    \/ \E id \in CtxIds, code \in WriteStatuses, ok \in BOOLEAN : HTML(id, code, ok)
    \/ \E id \in CtxIds, code \in WriteStatuses, ct \in DataTypes, ok \in BOOLEAN :
          Data(id, code, ct, ok)
    \/ \E id \in CtxIds, code \in WriteStatuses : NoContent(id, code)
    \/ \E id \in CtxIds, code \in RedirectStatuses : Redirect(id, code, "/login")
    \/ \E id \in CtxIds, ok \in BOOLEAN : Write(id, ok)
    \/ \E id \in CtxIds, code \in WriteStatuses, chunk \in BOOLEAN, res \in StepResults :
          Stream(id, code, CTData, chunk, res)
    \/ \E id \in CtxIds, code \in WriteStatuses : Status(id, code)
    \/ \E id \in CtxIds, key \in CustomHeaders : SetHeader(id, key, "custom-value")
    \/ \E id \in CtxIds, w \in Sinks, r \in Requests : Reset(id, w, r)

SpecWrite == Init /\ [][NextWrite]_vars

SpecChain == Init /\ [][NextChain]_vars

(* Every handler eventually returns: a handler that has been invoked runs  *)
(* on, in the goroutine of the Next() call that invoked it, until it       *)
(* returns; nothing in the chain waits for anything else.                  *)
SpecChainFair ==
    /\ SpecChain
    /\ WF_vars(HandlerMw) /\ WF_vars(HandlerFinal)
    /\ WF_vars(HandlerFail) /\ WF_vars(HandlerTwice)

(* The life of one pooled context: every operation, with one input each    *)
LifeChains == {<<>>, <<"mw", "final">>}

NextLife ==
    \/ SetParam(1, "id", "123")
    \/ SetValue(1, "user", "john")
    \/ Status(1, 201)
    \/ SetHeader(1, "Content-Type", "custom-value")
    \/ \E ok \in BOOLEAN : JSON(1, 201, ok)
    \/ String(1, 201, TRUE)
    \/ HTML(1, 201, TRUE)
    \/ Data(1, 201, CTData, TRUE)
    \/ NoContent(1, 201)
    \/ Redirect(1, 302, "/login")
    \/ Write(1, TRUE)
    \/ Stream(1, 201, CTData, TRUE, "EOF")
    \/ \E chain \in LifeChains : SetHandlers(1, chain)
    \/ Next(1)
    \/ HandlerMw
    \/ HandlerFinal
    \/ \E w \in {"w1", "w2"}, r \in Requests \ {Request(1)} : Reset(1, w, r)

Spec == Init /\ [][NextLife]_vars

(* An original context and the contexts derived from it *)
DeriveChains == {<<"mw", "final">>}

NextDerive ==
    \/ \E id \in CtxIds, cx \in CtxArgs : WithContext(id, cx)
    \/ \E id \in CtxIds, v \in {"123", "456"} : SetParam(id, "id", v)
    \/ \E id \in CtxIds : SetValue(id, "user", "john")
    \/ \E id \in CtxIds, chain \in DeriveChains : SetHandlers(id, chain)
    \/ \E id \in CtxIds : Next(id)
    \/ HandlerMw
    \/ HandlerFinal

SpecDerive == Init /\ [][NextDerive]_vars

(* Redirect with status codes on both sides of both ends of the range,     *)
(* on a context in any response state                                      *)
RedirectProbes == {200, 299, 300, 399, 400, 404}

NextRedirect ==
    \/ \E code \in RedirectProbes : Redirect(1, code, "/login")
    \/ Status(1, 201)
    \/ SetHeader(1, "Location", "custom-value")
    \/ \E ok \in BOOLEAN : JSON(1, 201, ok)
    \/ \E w \in {"w1", "w2"} : Reset(1, w, "r1")

SpecRedirect == Init /\ [][NextRedirect]_vars

(* params and values of one context, two keys and two values each *)
ParamValues == {"123", ""}
StoredValues == {"john", NilValue}

NextMaps ==
    \/ \E k \in Keys, v \in ParamValues : SetParam(1, k, v)
    \/ \E k \in Keys, v \in StoredValues : SetValue(1, k, v)
    \/ \E w \in {"w1", "w2"} : Reset(1, w, "r1")

SpecMaps == Init /\ [][NextMaps]_vars

(* Three goroutines calling the four accessors on one context *)
NextLock ==
    \/ \E t \in Threads : ThreadCall(t, 1, "Param", "id", "")
    \/ \E t \in Threads : ThreadCall(t, 1, "GetValue", "user", "")
    \/ \E t \in Threads, v \in {"123", "456"} : ThreadCall(t, 1, "SetParam", "id", v)
    \/ \E t \in Threads : ThreadCall(t, 1, "SetValue", "user", "john")
    \/ \E t \in Threads : ThreadLock(t, 1)
    \/ \E t \in Threads : ThreadRead(t, 1)
    \/ \E t \in Threads : ThreadWriteBegin(t, 1)
    \/ \E t \in Threads : ThreadWriteEnd(t, 1)
    \/ \E t \in Threads : ThreadUnlock(t, 1)
    \/ \E t \in Threads, cx \in CtxArgs : ThreadWithContextCall(t, 1, cx)
    \/ \E t \in Threads : ThreadCopyParams(t, 1)
    \/ \E t \in Threads : ThreadCopyValues(t, 1)
    \/ \E t \in Threads : ThreadCopyUnlock(t, 1)
    \/ \E t \in Threads : ThreadWithContextRead(t, 1)
    \/ \E t \in Threads : ThreadWithContextReturn(t, 1)

SpecLock == Init /\ [][NextLock]_vars

PoolThread == "t1"
Holders == Threads \ {PoolThread}

(* Two goroutines that still hold a context (a handler and the background  *)
(* task it spawned) calling the accessors while the pool's goroutine       *)
(* resets it for the next request                                          *)
NextPool ==
    \/ \E t \in Holders : ThreadCall(t, 1, "Param", "id", "")
    \/ \E t \in Holders : ThreadCall(t, 1, "GetValue", "user", "")
    \/ \E t \in Holders : ThreadCall(t, 1, "SetParam", "id", "123")
    \/ \E t \in Holders : ThreadCall(t, 1, "SetValue", "user", "john")
    \/ \E t \in Holders : ThreadLock(t, 1)
    \/ \E t \in Holders : ThreadRead(t, 1)
    \/ \E t \in Holders : ThreadWriteBegin(t, 1)
    \/ \E t \in Holders : ThreadWriteEnd(t, 1)
    \/ \E t \in Holders : ThreadUnlock(t, 1)
    \/ ThreadResetBegin(PoolThread, 1, "w2", "r2")
    \/ ThreadResetAssign(PoolThread, 1)
    \/ ThreadResetParams(PoolThread, 1)
    \/ \E keep \in BOOLEAN : ThreadResetParamsEnd(PoolThread, 1, keep)
    \/ ThreadResetValues(PoolThread, 1)
    \/ \E keep \in BOOLEAN : ThreadResetValuesEnd(PoolThread, 1, keep)
    \/ ThreadResetEnd(PoolThread, 1)
    \/ \E cx \in CtxArgs : ThreadWithContextCall("t2", 1, cx)
    \/ ThreadCopyParams("t2", 1)
    \/ ThreadCopyValues("t2", 1)
    \/ ThreadCopyUnlock("t2", 1)
    \/ ThreadWithContextRead("t2", 1)
    \/ ThreadWithContextReturn("t2", 1)
    \/ \E t \in Threads : ThreadFatal(t, 1)

(* The state after NewContext(w1, r1) and the router's SetHandlers *)
InitPool ==
    /\ heap = <<EmptyMap, EmptyMap>>
    /\ ctxs = <<SetHandlersRec(NewContextRec("w1", "r1", 1, 2), <<"final">>)>>
    /\ sink = [w \in Sinks |-> IF w = "w1" THEN NewSink ELSE Released]
    /\ commits = <<0>>
    /\ stack = <<>>
    /\ log = <<>>
    /\ lastNext = NoNext(1)
    /\ topCalls = <<0>>
    /\ cut = BeforeFirst
    /\ afterCut = 0
    /\ lastOp = Called("SetHandlers", 1, Nil)
    /\ threads = [t \in Threads |-> IdleThread]

SpecPool == InitPool /\ [][NextPool]_vars

(* A handler and the background tasks it handed its context to, all        *)
(* answering the request with one status code or another while one of them *)
(* derives a context                                                       *)
Answerers == {"t1", "t3"}

NextRace ==
    \/ \E t \in Answerers, code \in WriteStatuses : ThreadStatus(t, 1, code)
    \/ \E t \in Answerers : ThreadHeaderCheck(t, 1)
    \/ \E t \in Answerers : ThreadHeaderLoad(t, 1)
    \/ \E t \in Answerers : ThreadHeaderCommit(t, 1)
    \/ \E t \in Answerers : ThreadHeaderFlag(t, 1)
    \/ \E t \in Answerers : ThreadWritten(t, 1)
    \/ \E cx \in CtxArgs : ThreadWithContextCall("t2", 1, cx)
    \/ ThreadLock("t2", 1)
    \/ ThreadCopyParams("t2", 1)
    \/ ThreadCopyValues("t2", 1)
    \/ ThreadCopyUnlock("t2", 1)
    \/ ThreadWithContextRead("t2", 1)
    \/ ThreadWithContextReturn("t2", 1)

SpecRace == Init /\ [][NextRace]_vars

(* The goroutine that runs the chain, one that sets it and one that        *)
(* derives a context, all on one context                                   *)
ChainThread == "t1"

NextChainRace ==
    \/ ThreadSetHandlers("t3", 1, <<"final">>)
    \/ ThreadStoreHandlers("t3", 1)
    \/ ThreadRewind("t3", 1)
    \/ ThreadNextLoad(ChainThread, 1)
    \/ ThreadNextStore(ChainThread, 1)
    \/ \E reread \in BOOLEAN : ThreadNextTest(ChainThread, 1, reread)
    \/ \E reread \in BOOLEAN : ThreadNextInvoke(ChainThread, 1, reread)
    \/ HandlerFinal
    \/ ThreadNextReturn(ChainThread, 1)
    \/ \E cx \in CtxArgs : ThreadWithContextCall("t2", 1, cx)
    \/ ThreadLock("t2", 1)
    \/ ThreadCopyParams("t2", 1)
    \/ ThreadCopyValues("t2", 1)
    \/ ThreadCopyUnlock("t2", 1)
    \/ ThreadWithContextRead("t2", 1)
    \/ ThreadWithContextReturn("t2", 1)

SpecChainRace == Init /\ [][NextChainRace]_vars

(* A context and the context derived from it: both carry params, values,  *)
(* a chain and a cursor, and both answer                                   *)
NextFork ==
    \/ \E id \in CtxIds, cx \in CtxArgs : WithContext(id, cx)
    \/ \E id \in CtxIds, v \in {"123", "456"} : SetParam(id, "id", v)
    \/ \E id \in CtxIds : SetValue(id, "user", "john")
    \/ \E id \in CtxIds, chain \in DeriveChains : SetHandlers(id, chain)
    \/ \E id \in CtxIds : Next(id)
    \/ HandlerMw
    \/ HandlerFinal
    \/ \E id \in CtxIds : NoContent(id, 201)
    \/ \E id \in CtxIds : SetHeader(id, "Content-Type", "custom-value")

SpecFork == Init /\ [][NextFork]_vars
(* The state after NewContext(w1, request), the request's body stream      *)
(* holding body                                                            *)
InitRequest(request, body) ==
    /\ heap = <<EmptyMap, EmptyMap, NewBody(body)>>
    /\ ctxs = <<[NewContextRec("w1", "r1", 1, 2) EXCEPT !.request = request]>>
    /\ sink = [w \in Sinks |-> IF w = "w1" THEN NewSink ELSE Released]
    /\ commits = <<0>>
    /\ stack = <<>>
    /\ log = <<>>
    /\ lastNext = NoNext(1)
    /\ topCalls = <<0>>
    /\ cut = BeforeFirst
    /\ afterCut = 0
    /\ lastOp = Called("NewContext", 1, Nil)
    /\ threads = [t \in Threads |-> IdleThread]

(* a header field that is not there, or one with a value from vals *)
Field(vals) == {<<>>} \cup {<<v>> : v \in vals}

(* Body on requests of every kind of body and content type, on a context   *)
(* in any response state and on the context derived from it                *)
InitBody ==
    \E b \in Bodies \ {"drained"}, ct \in Field(ContentTypes) :
        InitRequest(HttpRequest("r1", b, ct, <<>>, <<>>, <<>>, <<>>), b)

NextBody ==
    \/ \E id \in CtxIds : Body(id)
    \/ \E id \in CtxIds, cx \in CtxArgs : WithContext(id, cx)
    \/ Status(1, 201)
    \/ SetHeader(1, "Content-Type", "custom-value")
    \/ \E ok \in BOOLEAN : JSON(1, 201, ok)

SpecBody == InitBody /\ [][NextBody]_vars

(* Query strings of up to MaxSegments segments *)
QuerySegments ==
    {<<"k", "=", "a">>, <<"k", "=", "b">>, <<"k", "=", "c">>, <<"k", "=">>, <<"k">>,
     <<"j", "=", "a">>, <<>>,
     <<"k", "=", "%", "6", "1">>, <<"%", "6", "b", "=", "+">>, <<"k", "=", "%", "a">>,
     <<"k", "=", "a", ";", "j", "=", "b">>}

RECURSIVE Join(_)
Join(segs) ==
    IF segs = <<>> THEN <<>>
    ELSE IF Len(segs) = 1 THEN segs[1]
    ELSE segs[1] \o <<"&">> \o Join(Tail(segs))

Queries == {Join(segs) : segs \in UNION {[1..n -> QuerySegments] : n \in 0..MaxSegments}}

QueryNames == {"k", "j"}
Fallback == <<"d">>

InitQuery ==
    \E q \in Queries : InitRequest(HttpRequest("r1", "NoBody", <<>>, q, <<>>, <<>>, <<>>), "NoBody")

NextQuery ==
    \/ \E name \in QueryNames : Query(1, name)
    \/ \E name \in QueryNames : QueryDefault(1, name, Fallback)
    \/ \E name \in QueryNames : QueryArray(1, name)

SpecQuery == InitQuery /\ [][NextQuery]_vars

(* ClientIP on requests with every combination of the two header fields    *)
(* and the remote address; each source has a letter of its own             *)
InitClientIP ==
    \E fwd \in Field(Strings({"a", ",", " ", "\n"}, MaxForwarded)),
       real \in Field(Strings({"b", " ", "U+00A0"}, MaxRealIP)),
       addr \in Strings({"c", ":"}, MaxRemote) :
        InitRequest(HttpRequest("r1", "NoBody", <<>>, <<>>, fwd, real, addr), "NoBody")

NextClientIP == ClientIP(1)

SpecClientIP == InitClientIP /\ [][NextClientIP]_vars

----------------------------------------------------------------------------
(* An original context and the context derived from it, both writing the   *)
(* response: they are bound to the same sink                               *)
NextShare ==
    \/ \E id \in CtxIds, cx \in CtxArgs : WithContext(id, cx)
    \/ \E id \in CtxIds, code \in WriteStatuses, ok \in BOOLEAN : JSON(id, code, ok)
    \/ \E id \in CtxIds, code \in WriteStatuses : NoContent(id, code)
    \/ \E id \in CtxIds, ok \in BOOLEAN : Write(id, ok)
    \/ \E id \in CtxIds : SetHeader(id, "Content-Type", "custom-value")

SpecShare == Init /\ [][NextShare]_vars

(* The two flags of a context and of the context derived from it, over     *)
(* response-writing calls, Status, Reset and WithContext                   *)
NextFlags ==
    \/ \E id \in CtxIds, cx \in CtxArgs : WithContext(id, cx)
    \/ \E id \in CtxIds : Status(id, 500)
    \/ \E id \in CtxIds, ok \in BOOLEAN : JSON(id, 201, ok)
    \/ \E id \in CtxIds : NoContent(id, 201)
    \/ \E id \in CtxIds : Write(id, FALSE)
    \/ \E id \in CtxIds : SetHeader(id, "Content-Type", "custom-value")
    \/ \E w \in {"w2", "w3"} : Reset(1, w, "r2")

SpecFlags == Init /\ [][NextFlags]_vars
(* Properties of the response-writing methods (SpecWrite)                  *)

Writers == {"JSON", "String", "HTML", "Data", "NoContent", "Redirect", "Write", "Stream"}

HeaderWritten(id) == ctxs[id].headerWritten

ResetOf(id) == lastOp'.op = "Reset" /\ lastOp'.c = id

(* C1: between two Resets, however many response-writing calls are made on *)
(* a context, WriteHeader is invoked through it at most once (and exactly  *)
(* when the header-committed flag is set), and the flag, once true, stays  *)
(* true in every step that is not a Reset of that context.                 *)
C1_HeaderCommittedOnce ==
    /\ [](\A id \in CtxIds :
            /\ commits[id] <= 1
            /\ HeaderWritten(id) <=> commits[id] = 1
            /\ Len(sink[Response(id)].whLog) = commits[id])
    /\ [][\A id \in CtxIds :
            (HeaderWritten(id) /\ ~ResetOf(id)) => ctxs'[id].headerWritten]_vars

(* C1's case: a second response-writing call has written its body on a     *)
(* context whose header was already committed.                             *)
C1_Witness ==
    /\ lastOp.op \in Writers
    /\ HeaderWritten(1)
    /\ sink[Response(1)].body = 2
    /\ commits[1] = 1

(* C6: once the header is committed, a later response-writing call on the  *)
(* same context changes neither the status committed to the sink nor the   *)
(* response's Content-Type header.                                         *)
C6_FirstWriterWins ==
    [][\A id \in CtxIds :
        (HeaderWritten(id) /\ lastOp'.op \in Writers /\ lastOp'.c = id)
        => LET w == Response(id)
           IN  /\ sink'[w].whLog = sink[w].whLog
               /\ sink'[w].header["Content-Type"] = sink[w].header["Content-Type"]]_vars

(* C7: once the header is committed, GetStatusCode() is the status that    *)
(* was committed to the sink, whatever Status() or response-writing calls  *)
(* follow, until Reset.                                                    *)
C7_StatusFrozenAfterCommit ==
    \A id \in CtxIds :
        HeaderWritten(id) => GetStatusCode(id) = Head(sink[Response(id)].whLog)

----------------------------------------------------------------------------
(* Reset (Spec)                                                            *)

(* C2: after Reset every accessor reports the empty/default state: Param   *)
(* is "" and GetValue is nil for every key, the status is 200, IsWritten   *)
(* is false, the header-committed flag is false and the cursor is -1.      *)
C2_ResetClears ==
    \A id \in CtxIds :
        (lastOp.op = "Reset" /\ lastOp.c = id)
        => /\ \A k \in Keys : Param(id, k) = "" /\ GetValue(id, k) = NilValue
           /\ GetStatusCode(id) = StatusOK
           /\ ~IsWritten(id)
           /\ ~HeaderWritten(id)
           /\ ctxs[id].index = BeforeFirst
           /\ commits[id] = 0

(* C2's case: Reset has just run on a context whose params, values,        *)
(* status, flags and cursor had all left their defaults.                   *)
C2_Witness == lastOp.op = "Reset" /\ lastOp.dirty

----------------------------------------------------------------------------
(* The handler chain (SpecChain)                                           *)

Handlers(id) == ctxs[id].handlers
Cursor(id) == ctxs[id].index

(* A chain m1 .. mk, handler: k pass-through middleware and a terminal     *)
(* handler that does not call Next()                                       *)
Wrapped(ch) ==
    /\ Len(ch) >= 1
    /\ \A i \in 1..(Len(ch) - 1) : ch[i] = "mw"
    /\ ch[Len(ch)] \in {"final", "fail"}

(* what the terminal handler at position k returns *)
TerminalResult(ch) == IF ch[Len(ch)] = "fail" THEN HandlerErr(Len(ch) - 1) ELSE Nil

(* The first top-level Next() on context id has returned *)
FirstRunDone(id) ==
    Idle /\ topCalls[id] = 1 /\ lastOp.op = "Next" /\ lastOp.c = id

(* m1-before .. mk-before, handler, mk-after .. m1-after *)
NestedLog(k, r) ==
    [i \in 1..(2 * k + 1) |->
        IF i <= k THEN Ev(i - 1, "before", Nil)
        ELSE IF i = k + 1 THEN Ev(k, "handler", Nil)
        ELSE Ev(2 * k + 1 - i, "after", r)]

(* C3: for a chain m1 .. mk, handler, one top-level Next() records         *)
(* m1-before, .., mk-before, handler, mk-after, .., m1-after.              *)
C3_NestedOrder ==
    \A id \in CtxIds :
        (Wrapped(Handlers(id)) /\ FirstRunDone(id))
        => log = NestedLog(Len(Handlers(id)) - 1, TerminalResult(Handlers(id)))

(* C3's case: the chain [A, B, handler] has run *)
C3_Witness ==
    /\ Handlers(1) = <<"mw", "mw", "final">>
    /\ FirstRunDone(1)
    /\ Len(log) = 5

InvokedAfter(p) == {log[i].pos : i \in {j \in 1..Len(log) : log[j].pos > p}}

(* C4: once the handler at position i has returned without calling Next(), *)
(* no handler at a position j > i is invoked during that chain execution   *)
(* (the first top-level Next()), whatever the enclosing handlers do.       *)
C4_ShortCircuitAbsolute ==
    (cut # BeforeFirst /\ topCalls[lastNext.c] <= 1) => InvokedAfter(cut) = {}

(* C4, what Next() does guarantee: after the handler at position i = cut   *)
(* returned without calling Next(), the positions invoked are exactly the  *)
(* next afterCut ones, one for each Next() call made since: none while     *)
(* nobody calls Next() again.                                              *)
C4_ShortCircuitUntilNextCall ==
    cut # BeforeFirst
    => LET n == Len(Handlers(lastNext.c))
           last == IF cut + afterCut < n THEN cut + afterCut ELSE n - 1
       IN  /\ InvokedAfter(cut) \subseteq (cut + 1)..last
           /\ Idle => InvokedAfter(cut) = (cut + 1)..last

(* C4's case: a handler short-circuited below the end of the chain, the    *)
(* enclosing middleware returned, and the later handlers never ran         *)
C4_Witness ==
    /\ FirstRunDone(1)
    /\ cut # BeforeFirst /\ cut + 1 < Len(Handlers(1))
    /\ afterCut = 0
    /\ Handlers(1)[1] = "mw"
    /\ InvokedAfter(cut) = {}

(* C5: the cursor is between -1 and len(handler chain) inclusive, and it   *)
(* never decreases within one execution (between SetHandlers/Reset).       *)
C5_CursorWithinChain ==
    /\ [](\A id \in CtxIds : Cursor(id) >= BeforeFirst /\ Cursor(id) <= Len(Handlers(id)))
    /\ [][\A id \in CtxIds :
            lastOp'.op \notin {"SetHandlers", "Reset"} => ctxs'[id].index >= Cursor(id)]_vars

(* C8: Next() returns what the handler it invoked returned: in a chain     *)
(* m1 .. mk, handler where every middleware returns what its Next()        *)
(* returned, the outermost Next() returns the terminal handler's result,   *)
(* and mk, .., m1 each observed that same result, innermost first.         *)
C8_FailurePropagates ==
    \A id \in CtxIds :
        (Wrapped(Handlers(id)) /\ FirstRunDone(id))
        => LET k == Len(Handlers(id)) - 1
               e == TerminalResult(Handlers(id))
               seen == SelectSeq(log, LAMBDA x : x.ev = "after")
           IN  /\ lastOp.ret = e
               /\ seen = [j \in 1..k |-> Ev(k - j, "after", e)]

(* C8's case: the terminal handler of [m1, m2, handler] failed *)
C8_Witness ==
    /\ Handlers(1) = <<"mw", "mw", "fail">>
    /\ FirstRunDone(1)
    /\ lastOp.ret = HandlerErr(2)

(* C9: a Next() call that finds the cursor past the last handler invokes   *)
(* no handler and returns success; so does Next() on an empty chain.       *)
C9_NextPastEndIsNoop ==
    /\ lastNext.idx >= Len(Handlers(lastNext.c)) /\ lastNext.idx # BeforeFirst
        => ~lastNext.hit /\ lastNext.ret = Nil
    /\ \A i \in 1..Len(stack) : stack[i].pos < Len(Handlers(stack[i].c))
    /\ \A id \in CtxIds :
        (Handlers(id) = <<>> /\ lastOp.op = "Next" /\ lastOp.c = id) => lastOp.ret = Nil

(* C9's case: every handler of a chain of length 2 called Next(), and the  *)
(* last one's call has just returned to it                                 *)
C9_Witness ==
    /\ Handlers(1) = <<"mw", "mw">>
    /\ lastNext.idx = 2 /\ ~lastNext.hit /\ lastNext.ret = Nil
    /\ Len(stack) = 2 /\ Top.pc = "ret1"

----------------------------------------------------------------------------
(* WithContext (SpecDerive)                                                *)

(* What Param, GetValue, the chain and the cursor show of a context *)
Observable(id) ==
    [params |-> [k \in Keys |-> Param(id, k)],
     values |-> [k \in Keys |-> GetValue(id, k)],
     handlers |-> Handlers(id),
     index |-> Cursor(id)]

(* C10: a context and the context derived from it with a non-nil ctx own   *)
(* independent params, values and chain: a SetParam, SetValue, SetHandlers *)
(* or Next on one is not observable through the other; they share the      *)
(* response sink.                                                          *)
C10_DerivedIsIndependent ==
    /\ [][\A id \in CtxIds : lastOp'.c # id => Observable(id)' = Observable(id)]_vars
    /\ [](\A id \in CtxIds : Response(id) = Response(1))

(* C10's case: after the derivation both contexts were written to and now  *)
(* differ in params, values, chain and cursor                              *)
C10_Witness ==
    /\ Len(ctxs) = 2
    /\ Param(1, "id") # Param(2, "id") /\ Param(2, "id") # ""
    /\ GetValue(1, "user") # GetValue(2, "user")
    /\ Handlers(1) # Handlers(2)
    /\ Cursor(1) # Cursor(2)
    /\ lastOp.c = 2

----------------------------------------------------------------------------
(* Redirect's validation (SpecRedirect)                                    *)

(* C11: Redirect(status, location) fails, with the invalid-status failure, *)
(* exactly when status is outside 300..399; and a Redirect that fails      *)
(* leaves the context and its sink as they were: no Location header, the   *)
(* status code, the WriteHeader calls and both flags unchanged.            *)
C11_RedirectValidates ==
    /\ [](lastOp.op = "Redirect"
          => /\ lastOp.ret # Nil <=> (lastOp.code < 300 \/ lastOp.code > 399)
             /\ lastOp.ret # Nil => lastOp.ret = Err("invalid redirect status code"))
    /\ [][(lastOp'.op = "Redirect" /\ lastOp'.ret # Nil)
          => /\ sink' = sink
             /\ commits' = commits
             /\ GetStatusCode(1)' = GetStatusCode(1)
             /\ HeaderWritten(1)' = HeaderWritten(1)
             /\ IsWritten(1)' = IsWritten(1)]_vars

(* C11's case: Redirect(400, ..) has failed on a context whose header was  *)
(* committed with 201 by an earlier call, and nothing shows of it          *)
C11_Witness ==
    /\ lastOp.op = "Redirect" /\ lastOp.code = 400 /\ lastOp.ret # Nil
    /\ HeaderWritten(1) /\ IsWritten(1) /\ GetStatusCode(1) = 201
    /\ sink[Response(1)].header["Location"] = Absent
    /\ sink[Response(1)].whLog = <<201>>

----------------------------------------------------------------------------
(* More properties of the response-writing methods (SpecWrite)             *)

(* C13: after a response-writing call returned success IsWritten() is      *)
(* true; once true it stays true in every step that is not a Reset of the  *)
(* context; after NewContext and after Reset it is false.                  *)
C13_WrittenSticks ==
    /\ []((lastOp.op \in Writers /\ lastOp.ret = Nil) => IsWritten(lastOp.c))
    /\ [](lastOp.op \in {"NewContext", "Reset"} => ~IsWritten(lastOp.c))
    /\ [][\A id \in CtxIds : (IsWritten(id) /\ ~ResetOf(id)) => IsWritten(id)']_vars

(* C13's case: a writer succeeded, and a later writer that failed left     *)
(* IsWritten() true                                                        *)
C13_Witness ==
    /\ lastOp.op = "JSON" /\ lastOp.ret # Nil
    /\ IsWritten(1)
    /\ sink[Response(1)].body >= 1

(* C15: Stream returns success when the producer returned no error or      *)
(* io.EOF, and for every other producer error a failure that wraps it.     *)
C15_StreamEndIsSuccess ==
    lastOp.op = "Stream"
    => IF lastOp.text \in {"nil", "EOF"}
       THEN lastOp.ret = Nil
       ELSE lastOp.ret = Wrap("streaming error", lastOp.text)

(* C15's case: the producer returned io.EOF *)
C15_Witness == lastOp.op = "Stream" /\ lastOp.text = "EOF" /\ lastOp.ret = Nil

(* C20: the first response-writing call on a context leaves the sink's     *)
(* Content-Type at application/json for JSON, text/plain; charset=utf-8    *)
(* for String, text/html; charset=utf-8 for HTML and the caller's content  *)
(* type for Data, whatever an earlier SetHeader had put there; NoContent,  *)
(* Redirect and Write set none: the Content-Type is after the call what it *)
(* was before it (not set, unless the caller's SetHeader had set one).     *)
C20_ContentTypePerWriter ==
    [][\A id \in CtxIds :
        (~HeaderWritten(id) /\ lastOp'.c = id /\ lastOp'.op \in Writers /\ ~ResetOf(id))
        => LET ct == sink'[Response(id)].header["Content-Type"]
               op == lastOp'.op
           IN  /\ op = "JSON" => ct = CTJson
               /\ op = "String" => ct = CTText
               /\ op = "HTML" => ct = CTHtml
               /\ op = "Data" => ct = lastOp'.text
               /\ op \in {"NoContent", "Redirect", "Write"}
                    => ct = sink[Response(id)].header["Content-Type"]]_vars

(* C20's case: Data with the caller's image/png was the first writer *)
C20_Witness ==
    /\ lastOp.op = "Data" /\ lastOp.text = "image/png" /\ lastOp.ret = Nil
    /\ commits[1] = 1
    /\ sink[Response(1)].body = 1
    /\ sink[Response(1)].header["Content-Type"] = "image/png"

----------------------------------------------------------------------------
(* params and values under concurrent callers (SpecLock)                   *)

(* goroutine t is between taking the lock and releasing it *)
InCS(t) == threads[t].pc \in {"locked", "copying", "copied", "writing", "done"}

IsWriter(t) == threads[t].op \in WriteOps

(* C12: every access to params/values is made holding the context's lock:  *)
(* while a SetParam or SetValue is at its map no other call is at the maps *)
(* (readers may be there together), so a read never finds a half-written   *)
(* entry, the maps do not change while a read is at them, and what the     *)
(* read returns is what the map holds until the read releases the lock.    *)
C12_AccessUnderLock ==
    /\ [](\A t \in Threads :
            /\ InCS(t) => IF IsWriter(t)
                          THEN /\ ctxs[1].mu.writer = t
                               /\ \A u \in Threads \ {t} : ~InCS(u)
                          ELSE /\ ctxs[1].mu.writer = NoThread
                               /\ ctxs[1].mu.readers >= 1
            /\ threads[t].ret # Torn
            /\ (threads[t].pc = "done" /\ threads[t].op = "Param")
                => threads[t].ret = Param(1, threads[t].key)
            /\ (threads[t].pc = "done" /\ threads[t].op = "GetValue")
                => threads[t].ret = GetValue(1, threads[t].key))
    /\ [](ctxs[1].mu.readers = Cardinality({t \in Threads : InCS(t) /\ ~IsWriter(t)}))
    /\ [][\A t \in Threads :
            (InCS(t) /\ ~IsWriter(t) /\ threads'[t].pc # "idle")
                => /\ heap'[ctxs[1].params] = heap[ctxs[1].params]
                   /\ heap'[ctxs[1].values] = heap[ctxs[1].values]]_vars

(* C12's case: two reads of params overlap after a SetParam has completed, *)
(* while another SetParam waits for the lock                               *)
C12_Witness ==
    /\ InCS("t1") /\ threads["t1"].op = "Param"
    /\ InCS("t2") /\ threads["t2"].op = "Param" /\ threads["t2"].ret = "123"
    /\ threads["t3"].pc = "lock" /\ threads["t3"].op = "SetParam" /\ threads["t3"].val = "456"
    /\ ctxs[1].mu.readers = 2

----------------------------------------------------------------------------
(* params and values (SpecMaps)                                            *)

(* C16: Param(name) is the value of the most recent SetParam(name, v), ""  *)
(* if there was none since NewContext/Reset, and GetValue(key) the value   *)
(* of the most recent SetValue(key, v), nil if there was none: a SetParam  *)
(* makes Param of its name its value and changes no other Param and no     *)
(* GetValue, a SetValue likewise, and after NewContext and Reset every     *)
(* Param is "" and every GetValue nil.                                     *)
C16_LastWriteWins ==
    /\ [](lastOp.op \in {"NewContext", "Reset"}
          => \A k \in Keys : Param(1, k) = "" /\ GetValue(1, k) = NilValue)
    /\ [][/\ lastOp'.op = "SetParam"
             => \A k \in Keys :
                  /\ k = lastOp'.key => Param(1, k)' = lastOp'.text
                  /\ k # lastOp'.key => Param(1, k)' = Param(1, k)
                  /\ GetValue(1, k)' = GetValue(1, k)
          /\ lastOp'.op = "SetValue"
             => \A k \in Keys :
                  /\ k = lastOp'.key => GetValue(1, k)' = lastOp'.text
                  /\ k # lastOp'.key => GetValue(1, k)' = GetValue(1, k)
                  /\ Param(1, k)' = Param(1, k)]_vars

(* C16's case: both keys of both maps were written, one param twice *)
C16_Witness ==
    /\ lastOp.op = "SetParam" /\ lastOp.key = "user" /\ lastOp.text = ""
    /\ heap[ctxs[1].params]["user"] # Absent
    /\ Param(1, "id") = "123" /\ Param(1, "user") = ""
    /\ GetValue(1, "id") = "john" /\ GetValue(1, "user") = NilValue
    /\ heap[ctxs[1].values]["user"] # Absent

----------------------------------------------------------------------------
(* Body (SpecBody)                                                         *)

(* a body stream is present in the request *)
BodyPresent(b) == b \notin {"nil", "NoBody"}

(* the request's Content-Type is JSON: its media type is application/json *)
IsJSONType(id) ==
    LET ct == GetHeader(id, "Content-Type") IN ct # <<>> /\ ct[1] = CTJson

EmptyBody == Err("request body is empty")
UnsupportedMediaType == Err("unsupported content type")
MalformedBody == {Err("invalid character"), Err("EOF")}

(* C14: Body fails with EmptyBody when the request has no body stream,     *)
(* with UnsupportedMediaType when it has one and the Content-Type is not   *)
(* JSON, with MalformedBody when the Content-Type is JSON and the payload  *)
(* does not decode, and succeeds exactly when the Content-Type is JSON and *)
(* the payload decodes; and Body changes neither the status code nor the   *)
(* flags nor the sink.                                                     *)
C14_BodyClassification ==
    /\ [](lastOp.op = "Body"
          => LET b == lastOp.text
                 r == lastOp.ret
             IN  /\ ~BodyPresent(b) => r = EmptyBody
                 /\ (BodyPresent(b) /\ ~IsJSONType(lastOp.c)) => r = UnsupportedMediaType
                 /\ (BodyPresent(b) /\ IsJSONType(lastOp.c) /\ b # "valid")
                        => r \in MalformedBody
                 /\ r = Nil <=> (IsJSONType(lastOp.c) /\ b = "valid"))
    /\ [][lastOp'.op = "Body"
          => /\ sink' = sink
             /\ commits' = commits
             /\ \A id \in CtxIds :
                    /\ GetStatusCode(id)' = GetStatusCode(id)
                    /\ HeaderWritten(id)' = HeaderWritten(id)
                    /\ IsWritten(id)' = IsWritten(id)]_vars

----------------------------------------------------------------------------
(* The query string (SpecQuery)                                            *)

Least(S) == CHOOSE x \in S : \A y \in S : x <= y

(* The segments of a query string by position: where each begins, its      *)
(* text, and its key and value on either side of its first "="             *)
SegStarts(q) == {1} \cup {i + 1 : i \in {j \in 1..Len(q) : q[j] = "&"}}

SegText(q, p) ==
    LET amps == {i \in p..Len(q) : q[i] = "&"}
    IN  SubSeq(q, p, IF amps = {} THEN Len(q) ELSE Least(amps) - 1)

SegKey(seg) ==
    LET eqs == {i \in 1..Len(seg) : seg[i] = "="}
    IN  IF eqs = {} THEN seg ELSE SubSeq(seg, 1, Least(eqs) - 1)

SegValue(seg) ==
    LET eqs == {i \in 1..Len(seg) : seg[i] = "="}
    IN  IF eqs = {} THEN <<>> ELSE SubSeq(seg, Least(eqs) + 1, Len(seg))

(* a key or a value as it reads: decoded where its escapes are well formed, *)
(* as it is written where they are not                                     *)
Decoded(s) == IF WellEscaped(s) THEN Unescaped(s) ELSE s

(* where the key name occurs in q *)
Occurrences(q, name) ==
    {p \in SegStarts(q) : SegText(q, p) # <<>> /\ Decoded(SegKey(SegText(q, p))) = name}

(* a segment that is well formed: no ";" in it, and every "%" of its key   *)
(* and of its value followed by two hexadecimal digits                     *)
WellFormed(seg) ==
    /\ \A i \in 1..Len(seg) : seg[i] # ";"
    /\ WellEscaped(SegKey(seg))
    /\ WellEscaped(SegValue(seg))

(* where the key name occurs in a well formed segment of q *)
WellFormedOccurrences(q, name) == {p \in Occurrences(q, name) : WellFormed(SegText(q, p))}

(* the values at the positions occ of q, in the order of the positions *)
ValuesAt(q, occ) ==
    [i \in 1..Cardinality(occ) |->
        Decoded(SegValue(SegText(q, CHOOSE p \in occ : Cardinality({o \in occ : o < p}) = i - 1)))]

(* the values of the key name in the order of their positions in q *)
InOrder(q, name) == ValuesAt(q, Occurrences(q, name))

RawQuery(id) == ctxs[id].request.query

(* C17: QueryDefault(name, fallback) returns the fallback when the key is  *)
(* not in the query string, and the key's first value whenever the key is  *)
(* in it, an empty first value included.                                   *)
C17_QueryDefaultOnlyWhenAbsent ==
    lastOp.op = "QueryDefault"
    => LET vals == InOrder(RawQuery(1), Chars(lastOp.key))
       IN  IF vals = <<>> THEN lastOp.ret = Fallback ELSE lastOp.ret = vals[1]

(* C18: QueryArray(name) is the decoded values of the key in the order in  *)
(* which they appear in the query string, taken from its well formed       *)
(* segments (a segment that holds a ";" or a "%" that is not followed by   *)
(* two hexadecimal digits is passed over), <<>> for a key that appears in  *)
(* no such segment (for k=a&k=b&k=c exactly a, b, c); Query(name) is the   *)
(* first element of QueryArray(name), or "" when QueryArray(name) is       *)
(* empty.                                                                  *)
C18_QueryArrayInOrder ==
    /\ lastOp.op = "QueryArray"
        => LET occ == WellFormedOccurrences(RawQuery(1), Chars(lastOp.key))
           IN  /\ lastOp.ret = ValuesAt(RawQuery(1), occ)
               /\ occ = {} => lastOp.ret = <<>>
               /\ (RawQuery(1) = Join(<<<<"k", "=", "a">>, <<"k", "=", "b">>, <<"k", "=", "c">>>>)
                   /\ lastOp.key = "k")
                   => lastOp.ret = << <<"a">>, <<"b">>, <<"c">> >>
    /\ lastOp.op = "Query"
        => LET all == QueryArrayOf(1, Chars(lastOp.key))
           IN  lastOp.ret = IF all = <<>> THEN <<>> ELSE all[1]

(* C18 as first stated: QueryArray(name) is all the values of the key in   *)
(* the order in which they appear in the query string, <<>> for a key that *)
(* does not appear; Query(name) is the first element of QueryArray(name),  *)
(* or "" when QueryArray(name) is empty.                                   *)
C18_AsStated ==
    /\ lastOp.op = "QueryArray"
        => /\ lastOp.ret = InOrder(RawQuery(1), Chars(lastOp.key))
           /\ Occurrences(RawQuery(1), Chars(lastOp.key)) = {} => lastOp.ret = <<>>
    /\ lastOp.op = "Query"
        => LET all == QueryArrayOf(1, Chars(lastOp.key))
           IN  lastOp.ret = IF all = <<>> THEN <<>> ELSE all[1]

(* C18's case: QueryArray("k") on k=c&k=a;j=b&k=%61 is c, a: the segment   *)
(* with the ";" is passed over and %61 is decoded                          *)
C18_Witness ==
    /\ RawQuery(1) = <<"k", "=", "c", "&", "k", "=", "a", ";", "j", "=", "b", "&",
                        "k", "=", "%", "6", "1">>
    /\ lastOp.op = "QueryArray" /\ lastOp.key = "k"
    /\ lastOp.ret = << <<"c">>, <<"a">> >>

----------------------------------------------------------------------------
(* ClientIP (SpecClientIP)                                                 *)

(* a header field is present in the request: it holds at least one value, *)
(* which may be the empty string                                           *)
Present(h) == ctxs[1].request.header[h] # <<>>

(* a header field holds a non-empty first value: what Header.Get can tell  *)
(* from an absent field                                                    *)
NonEmpty(v) == v # <<>>

(* r is s without its leading and trailing white space *)
IsTrimOf(r, s) ==
    \E i \in 1..(Len(s) + 1), j \in 0..Len(s) :
        /\ r = SubSeq(s, i, j)
        /\ \A k \in 1..(i - 1) : s[k] \in WhiteSpace
        /\ \A k \in (j + 1)..Len(s) : s[k] \in WhiteSpace
        /\ r # <<>> => (r[1] \notin WhiteSpace /\ r[Len(r)] \notin WhiteSpace)

(* the first n characters of s are its first comma-separated entry *)
IsFirstEntry(n, s) ==
    /\ \A k \in 1..n : s[k] # ","
    /\ n = Len(s) \/ s[n + 1] = ","

(* r is addr without everything from its last ":" *)
IsWithoutPort(r, addr) ==
    IF \E k \in 1..Len(addr) : addr[k] = ":"
    THEN \E n \in 0..(Len(addr) - 1) :
            /\ r = SubSeq(addr, 1, n)
            /\ addr[n + 1] = ":"
            /\ \A k \in (n + 2)..Len(addr) : addr[k] # ":"
    ELSE r = addr

(* C19: ClientIP() is the trimmed first comma-separated entry of           *)
(* X-Forwarded-For when that header has a non-empty value; otherwise the   *)
(* value of X-Real-IP with its surrounding white space trimmed when that   *)
(* one has a non-empty value (the value itself when it has no surrounding  *)
(* white space); otherwise RemoteAddr without everything from its last     *)
(* ":".  A header of lower precedence is never used while one of higher    *)
(* precedence has a non-empty value.                                       *)
C19_ClientIPPrecedence ==
    lastOp.op = "ClientIP"
    => LET fwd == GetHeader(1, "X-Forwarded-For")
           real == GetHeader(1, "X-Real-IP")
           addr == ctxs[1].request.remoteAddr
           r == lastOp.ret
       IN  IF NonEmpty(fwd)
           THEN \E n \in 0..Len(fwd) : IsFirstEntry(n, fwd) /\ IsTrimOf(r, SubSeq(fwd, 1, n))
           ELSE IF NonEmpty(real)
           THEN /\ IsTrimOf(r, real)
                /\ (real[1] \notin WhiteSpace /\ real[Len(real)] \notin WhiteSpace) => r = real
           ELSE IsWithoutPort(r, addr)

(* C19 as first stated: the trimmed first entry of X-Forwarded-For when    *)
(* that header is present; otherwise the value of X-Real-IP, as it is,     *)
(* when that one is present; otherwise RemoteAddr without its port.        *)
C19_AsStated ==
    lastOp.op = "ClientIP"
    => LET fwd == GetHeader(1, "X-Forwarded-For")
           real == GetHeader(1, "X-Real-IP")
           addr == ctxs[1].request.remoteAddr
           r == lastOp.ret
       IN  IF Present("X-Forwarded-For")
           THEN \E n \in 0..Len(fwd) : IsFirstEntry(n, fwd) /\ IsTrimOf(r, SubSeq(fwd, 1, n))
           ELSE IF Present("X-Real-IP")
           THEN r = real
           ELSE IsWithoutPort(r, addr)

(* C19's case: X-Forwarded-For is there with an empty value, X-Real-IP is  *)
(* " b" and the remote address has a port: the answer is "b"               *)
C19_Witness ==
    /\ lastOp.op = "ClientIP"
    /\ ctxs[1].request.header["X-Forwarded-For"] = << <<>> >>
    /\ GetHeader(1, "X-Real-IP") = <<" ", "b">>
    /\ ctxs[1].request.remoteAddr = <<"c", ":", "c">>
    /\ lastOp.ret = <<"b">>

----------------------------------------------------------------------------
(* Properties of a context and the context derived from it (SpecShare)     *)

(* C21: over a context and the context derived from it, which are bound to *)
(* the same response sink, WriteHeader is invoked on the sink at most once *)
(* in total, whatever the order of the response-writing calls on the two   *)
(* contexts and whenever the derivation was made.                          *)
C21_SharedSinkCommittedOnce ==
    \A w \in Sinks : Len(sink[w].whLog) <= 1

----------------------------------------------------------------------------
(* Properties of Reset against the goroutines holding the context (SpecPool) *)

(* C22: while Reset is deleting the entries of params and values no other  *)
(* goroutine is at the maps in Param, GetValue, SetParam, SetValue or the  *)
(* map copies of WithContext, and no read or copy finds an entry whose     *)
(* deletion is under way.                                                  *)
C22_ResetExcludesAccessors ==
    \A t \in Threads :
        /\ Clearing(t) => \A u \in Threads \ {t} : ~InCS(u)
        /\ threads[t].ret # Torn

----------------------------------------------------------------------------
(* Properties of response writers racing on one context (SpecRace)         *)

(* C23: when several goroutines call response-writing methods on one       *)
(* context at the same time, the header is committed once: however the     *)
(* tests of the header-committed flag and the WriteHeader calls interleave, *)
(* the context invokes WriteHeader on its sink at most once.               *)
C23_RacingWritersCommitOnce ==
    /\ commits[1] <= 1
    /\ Len(sink[Response(1)].whLog) <= 1

----------------------------------------------------------------------------
(* Properties of the cursor over the life of a context (Spec)              *)

(* a step in which Next() is called on context id *)
NextCall(id) == lastOp'.op = "Next" /\ lastNext' # lastNext /\ lastNext'.c = id

(* C24: SetHandlers leaves the cursor at -1 whatever it was; a Next() call *)
(* that finds the cursor at -1 invokes position 0 of the chain, or invokes *)
(* nothing and returns success when the chain is empty; and the cursor is  *)
(* changed by nothing but Next (to one more), SetHandlers and Reset (to -1). *)
C24_SetHandlersRewinds ==
    /\ [](lastOp.op = "SetHandlers" => Cursor(lastOp.c) = BeforeFirst)
    /\ [][(Cursor(1) = BeforeFirst /\ NextCall(1))
            => IF Handlers(1) = <<>>
               THEN stack' = stack /\ log' = log /\ lastOp'.ret = Nil
               ELSE stack' = Append(stack, Frame(1, 0, Handlers(1)[1]))]_vars
    /\ [][Cursor(1)' # Cursor(1)
            => \/ NextCall(1) /\ Cursor(1)' = Cursor(1) + 1
               \/ /\ lastOp'.op \in {"SetHandlers", "Reset"} /\ lastOp'.c = 1
                  /\ Cursor(1)' = BeforeFirst]_vars

(* C24's case: SetHandlers installed a chain on a context whose cursor had *)
(* moved, and the cursor is back at -1                                     *)
C24_Witness ==
    /\ lastOp.op = "SetHandlers" /\ lastOp.dirty
    /\ Handlers(1) # <<>>
    /\ Cursor(1) = BeforeFirst

(* C25: a context is bound to exactly one response sink.  After            *)
(* Reset(w2, r2), Request() and Response() return r2 and w2; every header  *)
(* set, header commit and body write goes to the sink the context is bound *)
(* to and none to any other sink, the one it was bound to before included; *)
(* and the first response-writing call after Reset commits the header on   *)
(* the new sink, whether or not it had been committed on the old one.      *)
C25_OneSinkBound ==
    /\ [](lastOp.op = "Reset"
            => Response(lastOp.c) = lastOp.key /\ Request(lastOp.c) = lastOp.text)
    /\ [](\A w \in Sinks \ {Response(1)} : sink[w] = Released)
    /\ [][lastOp'.op # "Reset"
            => /\ Response(1)' = Response(1) /\ Request(1)' = Request(1)
               /\ \A w \in Sinks \ {Response(1)} : sink'[w] = sink[w]]_vars
    /\ [][(commits[1] = 0 /\ lastOp'.op \in Writers)
            => sink'[Response(1)].whLog = <<GetStatusCode(1)'>>]_vars

(* C25's case: the context answered on w1, was reset to (w2, r2), and the  *)
(* first JSON after that committed 201 and wrote its body on w2            *)
C25_Witness ==
    /\ lastOp.op = "JSON" /\ lastOp.ret = Nil
    /\ Response(1) = "w2" /\ Request(1) = "r2"
    /\ sink["w2"].whLog = <<201>> /\ sink["w2"].body = 1
    /\ sink["w2"].header["Content-Type"] = CTJson
    /\ sink["w1"] = Released

(* C26: Reset leaves the handler chain empty and nothing but SetHandlers   *)
(* fills it again, and a Next() on an empty chain invokes no handler and   *)
(* returns success: between Reset and the next SetHandlers no handler of   *)
(* the previous request's chain runs, however far that chain had got.      *)
C26_ResetTruncatesChain ==
    /\ [](lastOp.op = "Reset" => Handlers(lastOp.c) = <<>>)
    /\ [][Handlers(1)' # Handlers(1) => lastOp'.op \in {"SetHandlers", "Reset"}]_vars
    /\ [][(Handlers(1) = <<>> /\ NextCall(1))
            => /\ ~lastNext'.hit /\ lastNext'.ret = Nil
               /\ stack' = <<>> /\ log' = log
               /\ lastOp' = Called("Next", 1, Nil)]_vars

(* C26's case: the context was reset to w2 and Next() was then called on   *)
(* its empty chain: the cursor moved to 0, nothing ran, nil came back      *)
C26_Witness ==
    /\ Response(1) = "w2"
    /\ Handlers(1) = <<>> /\ Cursor(1) = 0
    /\ lastOp = Called("Next", 1, Nil)
    /\ ~lastNext.hit /\ log = <<>>

----------------------------------------------------------------------------
(* Properties of repeated Next() calls (SpecChain)                         *)

(* The Next() calls made on context 1 since its cursor was reset, counted  *)
(* from what the callers have done: the outermost caller's calls, one for  *)
(* each handler that is waiting for or back from its first call, one more  *)
(* for each that is waiting for or back from its second, and the calls of  *)
(* the handlers that have returned (one of a mw, two of a twice).          *)
NextCalls ==
    LET afters == {j \in 1..Len(log) : log[j].ev = "after"}
    IN  topCalls[1]
        + Cardinality({j \in 1..Len(stack) : stack[j].pc \in {"wait1", "ret1", "wait2", "ret2"}})
        + Cardinality({j \in 1..Len(stack) : stack[j].pc \in {"wait2", "ret2"}})
        + Cardinality(afters)
        + Cardinality({j \in afters : Handlers(1)[log[j].pos + 1] = "twice"})

IsEntry(e) == e.ev \in {"before", "handler"}

(* The chain positions invoked since the cursor was reset, in the order of *)
(* their invocation: the handlers that have recorded their entry, and the  *)
(* handler that has just been invoked and has not run yet.                 *)
InvokedPositions ==
    LET entries == SelectSeq(log, IsEntry)
    IN  [i \in 1..Len(entries) |-> entries[i].pos]
        \o (IF stack # <<>> /\ Top.pc = "start" THEN <<Top.pos>> ELSE <<>>)

(* C27: between one SetHandlers/Reset and the next, the k-th Next() call   *)
(* invokes position k-1 of the chain when k <= len(chain) and nothing      *)
(* otherwise, whoever makes the call: so the positions invoked after k     *)
(* calls are 0, 1, ... in this order, each once, as many as the smaller of *)
(* k and len(chain).                                                       *)
C27_KthNextInvokesKth ==
    /\ [](LET n == IF NextCalls < Len(Handlers(1)) THEN NextCalls ELSE Len(Handlers(1))
          IN  /\ Cursor(1) = NextCalls - 1
              /\ InvokedPositions = [i \in 1..n |-> i - 1])
    /\ [][NextCall(1)
            => LET k == NextCalls'
               IN  /\ k = NextCalls + 1
                   /\ IF k <= Len(Handlers(1))
                      THEN /\ Len(stack') = Len(stack) + 1
                           /\ stack'[Len(stack')] = Frame(1, k - 1, Handlers(1)[k])
                      ELSE Len(stack') = Len(stack)]_vars

(* C27's case: a handler that calls Next() twice heads a chain of three;   *)
(* its two calls and the outermost caller's two make four: positions 0, 1  *)
(* and 2 ran once each in this order and the fourth call invoked nothing   *)
C27_Witness ==
    /\ Idle
    /\ Handlers(1) = <<"twice", "final", "final">>
    /\ NextCalls = 4
    /\ InvokedPositions = <<0, 1, 2>>
    /\ ~lastNext.hit

(* C28: chain execution terminates.  When every handler eventually returns *)
(* (SpecChainFair) and the chain is not replaced while it runs, an         *)
(* outermost Next() that has invoked a handler eventually returns, and the *)
(* handlers invoked since the cursor was reset are never more than the     *)
(* chain has.                                                              *)
C28_ChainTerminates ==
    /\ ~Idle ~> Idle
    /\ [](Len(InvokedPositions) <= Len(Handlers(1)))

(* C28's case: the outermost Next() on a chain of three handlers that all *)
(* call Next(), one of them twice, has returned after invoking each of the *)
(* three once                                                              *)
C28_Witness ==
    /\ Idle
    /\ Handlers(1) = <<"mw", "twice", "mw">>
    /\ topCalls[1] = 1
    /\ lastOp = Called("Next", 1, Nil)
    /\ Len(InvokedPositions) = 3

----------------------------------------------------------------------------
(* Properties of failing body writes (SpecWrite)                           *)

BodyWriters == {"JSON", "String", "HTML", "Data"}

(* C29: when the sink's body write fails during JSON, String, HTML or      *)
(* Data, the method returns a failure that wraps the transport's error,    *)
(* leaves the written flag as it was, writes no body, and leaves the       *)
(* header committed: with the status committed before when there was one,  *)
(* with the call's own status otherwise.                                   *)
C29_FailedWriteKeepsCommit ==
    [][(lastOp'.op \in BodyWriters /\ lastOp'.ret # Nil)
        => LET w == Response(1)
           IN  /\ Len(lastOp'.ret) = 4 /\ lastOp'.ret[1] = "error"
               /\ lastOp'.ret[4] = TransportErr
               /\ IsWritten(1)' = IsWritten(1)
               /\ HeaderWritten(1)'
               /\ sink'[w].whLog = IF HeaderWritten(1) THEN sink[w].whLog
                                                        ELSE <<lastOp'.code>>
               /\ sink'[w].body = sink[w].body]_vars

(* C29's case: Data(500, ...) on a fresh context failed at the body write: *)
(* 500 is committed, no body is there, the context is not written          *)
C29_Witness ==
    /\ lastOp.op = "Data"
    /\ lastOp.ret = Wrap("failed to write data response", TransportErr)
    /\ HeaderWritten(1) /\ ~IsWritten(1)
    /\ sink[Response(1)].whLog = <<500>>
    /\ sink[Response(1)].body = 0

(* C30: Stream calls the step function again whenever it returned nil, so  *)
(* Stream returns only after a call of the step function has returned      *)
(* io.EOF or another error: the result of the last step call before        *)
(* Stream's return is never nil.                                           *)
C30_StreamRepeatsUntilEnd ==
    lastOp.op = "Stream" => lastOp.text \in StepResults \ {"nil"}

----------------------------------------------------------------------------
(* Properties of the order of the steps inside one call (SpecWrite)        *)

(* every step of the kinds in A comes before every step of the kinds in B *)
AllBefore(steps, A, B) ==
    \A i, j \in 1..Len(steps) : (steps[i] \in A /\ steps[j] \in B) => i < j

HowMany(steps, what) == Cardinality({i \in 1..Len(steps) : steps[i] = what})

(* C31: inside every response-writing call the header sets and the status  *)
(* assignment come before the header commit, and the header commit comes   *)
(* before the body write and, for Stream, before the producer is invoked;  *)
(* a call on a context whose header is not committed does commit, unless   *)
(* it is a Redirect that refuses its status, which takes no step at all.   *)
C31_StepsInOrder ==
    /\ [](lastOp.op \in Writers
            => LET st == lastOp.steps
               IN  /\ AllBefore(st, {"header", "status"}, {"commit", "write", "step"})
                   /\ AllBefore(st, {"commit"}, {"write", "step"})
                   /\ HowMany(st, "header") =
                         (IF lastOp.op = "Stream" THEN 2
                          ELSE IF lastOp.op \in {"NoContent", "Write"} \/ lastOp.ret = Err("invalid redirect status code")
                          THEN 0 ELSE 1)
                   /\ HowMany(st, "status") =
                         (IF lastOp.op = "Write" \/ lastOp.ret = Err("invalid redirect status code")
                          THEN 0 ELSE 1)
                   /\ HowMany(st, "step") = (IF lastOp.op = "Stream" THEN 1 ELSE 0)
                   /\ lastOp.op \in {"JSON", "String", "HTML", "Data", "Write"}
                        => HowMany(st, "write") = 1
                   /\ lastOp.ret = Err("invalid redirect status code") => st = <<>>)
    /\ [][(lastOp'.op \in Writers /\ lastOp'.steps # <<>>)
            => HowMany(lastOp'.steps, "commit") = (IF HeaderWritten(1) THEN 0 ELSE 1)]_vars

(* C31's case: Stream on a fresh context, with a producer that writes a    *)
(* chunk: two header sets, the status, the commit, then the producer       *)
C31_Witness ==
    /\ lastOp.op = "Stream"
    /\ lastOp.steps = <<"header", "header", "status", "commit", "written", "step", "write">>

----------------------------------------------------------------------------
(* Properties of raw Write and of the committed status (SpecWrite)         *)

(* C32: Write(data) on a context whose header is not committed commits it  *)
(* with the status code the context has (200 from NewContext and Reset,    *)
(* the argument of Status() after Status()), on a context whose header is  *)
(* committed it commits nothing; either way it sets no header and no       *)
(* status, hands the bytes to the sink and returns the sink's count and    *)
(* the sink's error as they are.                                           *)
C32_RawWrite ==
    /\ [](lastOp.op \in {"NewContext", "Reset"} => GetStatusCode(lastOp.c) = StatusOK)
    /\ [](lastOp.op = "Status" => GetStatusCode(lastOp.c) = lastOp.code)
    /\ [][lastOp'.op = "Write"
            => LET w == Response(1)
               IN  /\ sink'[w].whLog = IF HeaderWritten(1) THEN sink[w].whLog
                                                            ELSE <<GetStatusCode(1)>>
                   /\ sink'[w].header = sink[w].header
                   /\ GetStatusCode(1)' = GetStatusCode(1)
                   /\ \/ /\ lastOp'.ret = Nil /\ lastOp'.code = 1
                         /\ sink'[w].body = sink[w].body + 1
                      \/ /\ lastOp'.ret = Err(TransportErr) /\ lastOp'.code = 0
                         /\ sink'[w].body = sink[w].body]_vars

(* C32's case: Status(500), then Write as the first writer: 500 is         *)
(* committed, no Content-Type is there, one chunk is in the body           *)
C32_Witness ==
    /\ lastOp.op = "Write" /\ lastOp.ret = Nil /\ lastOp.code = 1
    /\ lastOp.steps = <<"commit", "written", "write">>
    /\ sink[Response(1)].whLog = <<500>>
    /\ sink[Response(1)].header["Content-Type"] = Absent
    /\ sink[Response(1)].body = 1

(* C33: when JSON, String, HTML, Data, NoContent, Stream or a Redirect     *)
(* that accepts its status is called on a context whose header is not      *)
(* committed, the status committed to the sink is the status passed to the *)
(* call, whatever Status() had set before, and GetStatusCode() is that     *)
(* status afterwards.                                                      *)
C33_FirstWriterCommitsItsStatus ==
    [][(/\ ~HeaderWritten(1)
        /\ lastOp'.op \in Writers \ {"Write"}
        /\ lastOp'.ret # Err("invalid redirect status code"))
        => /\ sink'[Response(1)].whLog = <<lastOp'.code>>
           /\ GetStatusCode(1)' = lastOp'.code
           /\ HeaderWritten(1)']_vars

(* C33's case: NoContent(201) was the first writer: 201 is committed and   *)
(* reported, with no body                                                  *)
C33_Witness ==
    /\ lastOp.op = "NoContent" /\ lastOp.code = 201
    /\ lastOp.steps = <<"status", "commit", "written">>
    /\ sink[Response(1)].whLog = <<201>>
    /\ GetStatusCode(1) = 201
    /\ sink[Response(1)].body = 0

(* C34: the written flag is true only if a body byte has been emitted to   *)
(* the sink or a no-body terminal (NoContent, a Redirect that accepts its  *)
(* status) has completed: the flag becomes true only in a step that emits  *)
(* a body byte or is such a terminal, a Write whose sink write failed and  *)
(* a Stream whose producer wrote nothing included.                         *)
C34_WrittenMeansEmitted ==
    [][(~IsWritten(1) /\ IsWritten(1)')
        => \/ sink'[Response(1)].body > sink[Response(1)].body
           \/ lastOp'.op \in {"NoContent", "Redirect"}]_vars

----------------------------------------------------------------------------
(* Properties of the two flags (SpecFlags)                                 *)

(* C35: in every state of every context, after any sequence of             *)
(* response-writing calls, Status, Reset and WithContext, the written flag *)
(* implies the header-committed flag.                                      *)
C35_WrittenImpliesCommitted ==
    \A id \in CtxIds : IsWritten(id) => HeaderWritten(id)

(* C35's case: a context was derived from a written one and the original  *)
(* was then reset: the derived context has both flags, the original none   *)
C35_Witness ==
    /\ Len(ctxs) = 2
    /\ IsWritten(2) /\ HeaderWritten(2)
    /\ ~IsWritten(1) /\ ~HeaderWritten(1)
    /\ lastOp.op = "Reset"

----------------------------------------------------------------------------
(* Properties of WithContext (SpecFork)                                    *)

(* C36: WithContext leaves the context it is called on as it was: its      *)
(* request and the request's context.Context, its params and values, its   *)
(* chain and cursor, its status code and its two flags; and the context it *)
(* returns for a non-nil ctx is a new one whose request carries ctx.       *)
C36_WithContextKeepsReceiver ==
    [][lastOp'.op = "WithContext"
        => LET c == lastOp'.c
           IN  /\ ctxs'[c] = ctxs[c]
               /\ heap'[ctxs[c].params] = heap[ctxs[c].params]
               /\ heap'[ctxs[c].values] = heap[ctxs[c].values]
               /\ sink' = sink
               /\ lastOp'.key # "nil"
                    => /\ Len(ctxs') = Len(ctxs) + 1
                       /\ lastOp'.ret = Ref(Len(ctxs'))
                       /\ ctxs'[Len(ctxs')].request.cx = lastOp'.key
                       /\ ctxs'[Len(ctxs')].request.req = ctxs[c].request.req]_vars

(* C36's case: a context with a param, a value, a chain that has run, and  *)
(* a written response has just been derived from, and is as it was         *)
C36_Witness ==
    /\ lastOp.op = "WithContext" /\ lastOp.key = "cancel" /\ lastOp.c = 1
    /\ Len(ctxs) = 2
    /\ ctxs[1].request.cx = "background" /\ ctxs[2].request.cx = "cancel"
    /\ Param(1, "id") = "123" /\ GetValue(1, "user") = "john"
    /\ Handlers(1) # <<>> /\ Cursor(1) = 1
    /\ GetStatusCode(1) = 201 /\ HeaderWritten(1) /\ IsWritten(1)

(* C37: the context derived by WithContext with a non-nil ctx starts with  *)
(* the cursor, status code, two flags, params, values and chain contents   *)
(* the original has at that moment, on the same sink.  So a context        *)
(* derived with the header committed never invokes WriteHeader in its      *)
(* response-writing calls, and its Next() goes on from the cursor it took  *)
(* over.                                                                   *)
C37_DerivedStartsAsOriginal ==
    /\ [][(lastOp'.op = "WithContext" /\ Len(ctxs') = Len(ctxs) + 1)
            => LET c == ctxs[lastOp'.c]
                   d == ctxs'[Len(ctxs')]
               IN  /\ d.index = c.index /\ d.statusCode = c.statusCode
                   /\ d.headerWritten = c.headerWritten /\ d.written = c.written
                   /\ d.handlers = c.handlers /\ d.response = c.response
                   /\ heap'[d.params] = heap[c.params]
                   /\ heap'[d.values] = heap[c.values]]_vars
    /\ [][(Len(ctxs) = 2 /\ HeaderWritten(2) /\ lastOp'.c = 2)
            => /\ commits'[2] = commits[2]
               /\ sink'[Response(2)].whLog = sink[Response(2)].whLog
               /\ HowMany(lastOp'.steps, "commit") = 0]_vars
    /\ [][(Len(ctxs) = 2 /\ NextCall(2))
            => /\ lastNext'.idx = Cursor(2) + 1
               /\ lastNext'.hit <=> Cursor(2) + 1 < Len(Handlers(2))]_vars

(* C37's case: the context was derived after the original had committed    *)
(* 201 and run its chain to the end; NoContent on the derived context has  *)
(* set the status and the written flag and has not committed again         *)
C37_Witness ==
    /\ Len(ctxs) = 2
    /\ lastOp.op = "NoContent" /\ lastOp.c = 2
    /\ lastOp.steps = <<"status", "written">>
    /\ commits[2] = 0 /\ HeaderWritten(2)
    /\ sink[Response(2)].whLog = <<201>>
    /\ Cursor(2) = 1 /\ Cursor(1) = 1

(* C38: WithContext(nil) returns the receiver itself: no context is made,  *)
(* what it returns refers to the very context it was called on, so that    *)
(* the two names denote one object with one set of fields and maps, and    *)
(* nothing of that context changes, its request's context.Context          *)
(* included.                                                               *)
C38_NilReturnsReceiver ==
    [][(lastOp'.op = "WithContext" /\ lastOp'.key = "nil")
        => /\ lastOp'.ret = Ref(lastOp'.c)
           /\ ctxs' = ctxs
           /\ heap' = heap
           /\ sink' = sink]_vars

(* C38's case: WithContext(nil) on a context that has a param and a        *)
(* written response returned that context; there is still one context     *)
C38_Witness ==
    /\ lastOp.op = "WithContext" /\ lastOp.key = "nil"
    /\ lastOp.ret = Ref(1)
    /\ Len(ctxs) = 1
    /\ ctxs[1].request.cx = "background"
    /\ Param(1, "id") = "456" /\ IsWritten(1)
====
